---- MODULE Spec2Model ----
(***************************************************************************)
(* CxMGMTaC: reconciliation of a desired model of teams and users (loaded  *)
(* from YAML files) against the Access Control directory.                  *)
(*                                                                         *)
(* Python values are encoded as strings that keep their type: "none",      *)
(* "s:<text>", "i:<number>", "b:True", "b:False", "l:<items>", "set()".    *)
(* Team names are sequences of character codes, so that str.split,         *)
(* str.join and the lexical order used by sorted() are computed and not    *)
(* assumed.                                                                *)
(***************************************************************************)
EXTENDS Integers, Sequences, FiniteSets, TLC

VARIABLES
    dir_teams,      \* the directory: sequence of team records (MockCxSAST.teams)
    dir_users,      \* the directory: sequence of user records (MockCxSAST.users)
    files,          \* the YAML files: the desired teams and users as loaded
    dry_run,        \* options.dry_run
    cur_model,      \* update(): cur_model (Model retrieved from the directory)
    new_model,      \* update(): new_model (Model loaded from the files)
    team_map,       \* add_teams(): local deep copy of new_model.team_map
    todo,           \* the remaining items of the loop being executed
    calls,          \* calls of create_team .. update_user made in this run
    pc,             \* position in update() / apply_changes()
    run,            \* number of the current run of update()
    prev_calls,     \* the calls made by the previous run
    diff_in,        \* inputs of the function under check (pure-function specifications)
    diff_out        \* its result (pure-function specifications)

vars == <<dir_teams, dir_users, files, dry_run, cur_model, new_model, team_map,
          todo, calls, pc, run, prev_calls, diff_in, diff_out>>

-----------------------------------------------------------------------------
(* Bounds of the model *)

MaxRuns == 2     \* runs of update() against the same files
MaxUsers == 2    \* users in the directory, and in the files
MaxTeams == 3    \* teams in the directory, and in the files
MaxListed == 3   \* users listed in a users file under validation

-----------------------------------------------------------------------------
(* Python values *)

None == "none"

\* Python truthiness: None, '', 0, False and empty containers are false.
Falsy == {"none", "s:", "i:0", "b:False", "l:", "set()"}

Truthy(x) == x \notin Falsy

\* Python ==: bool is a subclass of int, an empty set is never an empty list.
PyEq(x, y) ==
    \/ x = y
    \/ {x, y} = {"i:0", "b:False"}
    \/ {x, y} = {"i:1", "b:True"}

\* attr_equal with the falsy-equivalence applied to bool too (mutant).
attr_equal_falsy_bool(attr1, attr2, attr_type) ==
    IF ~Truthy(attr1) /\ ~Truthy(attr2) THEN TRUE ELSE PyEq(attr1, attr2)

\* attr_equal as plain equality (mutant).
attr_equal_strict(attr1, attr2, attr_type) == PyEq(attr1, attr2)

attr_equal(attr1, attr2, attr_type) ==
    IF attr_type # "bool" /\ ~Truthy(attr1) /\ ~Truthy(attr2)
    THEN TRUE
    ELSE PyEq(attr1, attr2)

-----------------------------------------------------------------------------
(* Strings as sequences of character codes *)

SLASH == 47

\* Python's order on str: lexicographic on the code points.
RECURSIVE StrLess(_, _)
StrLess(s, t) ==
    IF t = <<>> THEN FALSE
    ELSE IF s = <<>> THEN TRUE
    ELSE IF Head(s) # Head(t) THEN Head(s) < Head(t)
    ELSE StrLess(Tail(s), Tail(t))

\* str.split('/')
RECURSIVE SplitFrom(_, _, _)
SplitFrom(s, i, piece) ==
    IF i > Len(s) THEN <<piece>>
    ELSE IF s[i] = SLASH THEN <<piece>> \o SplitFrom(s, i + 1, <<>>)
    ELSE SplitFrom(s, i + 1, Append(piece, s[i]))

split(s) == SplitFrom(s, 1, <<>>)

\* '/'.join(pieces)
RECURSIVE join(_)
join(pieces) ==
    IF pieces = <<>> THEN <<>>
    ELSE IF Len(pieces) = 1 THEN pieces[1]
    ELSE pieces[1] \o <<SLASH>> \o join(Tail(pieces))

Last(seq) == seq[Len(seq)]

get_team_parent_name(full_name) ==
    join(SubSeq(split(full_name), 1, Len(split(full_name)) - 1))

Min(S) == CHOOSE x \in S : \A y \in S : x <= y
Max(S) == CHOOSE x \in S : \A y \in S : y <= x

StrMin(S) == CHOOSE s \in S : \A t \in S : s = t \/ StrLess(s, t)

\* sorted that puts the greatest name first (mutant).
RECURSIVE sorted_descending(_)
sorted_descending(S) ==
    IF S = {} THEN <<>>
    ELSE LET last == CHOOSE s \in S : \A t \in S : s = t \/ StrLess(t, s)
         IN  <<last>> \o sorted_descending(S \ {last})

\* sorted(names) for a set of str
RECURSIVE sorted(_)
sorted(S) ==
    IF S = {} THEN <<>>
    ELSE <<StrMin(S)>> \o sorted(S \ {StrMin(S)})

\* sorted(names, reverse=True)
RECURSIVE Reverse(_)
Reverse(seq) ==
    IF seq = <<>> THEN <<>> ELSE Append(Reverse(Tail(seq)), Head(seq))

\* sorted(..., reverse=True) without the reverse (mutant).
sorted_reverse_ascending(S) == sorted(S)

sorted_reverse(S) == Reverse(sorted(S))

Range(seq) == {seq[i] : i \in 1..Len(seq)}

\* The elements of a set in some order (the order of a Python set or list
\* that the program does not sort).
RECURSIVE SetToSeq(_)
SetToSeq(S) ==
    IF S = {} THEN <<>>
    ELSE LET x == CHOOSE y \in S : TRUE IN <<x>> \o SetToSeq(S \ {x})

-----------------------------------------------------------------------------
(* Identifiers: team_id and user_id are positive; NoId stands for None. *)

NoId == 0

-----------------------------------------------------------------------------
(* Role/provider resolver: RoleManager, AuthenticationProviderManager *)

all_roles == {[id |-> 1, name |-> "Admin"], [id |-> 2, name |-> "Reviewer"]}

authentication_providers ==
    {[id |-> 1, name |-> "Application"], [id |-> 2, name |-> "LDAP"]}

\* RoleManager.valid_name
role_valid_name(role_name) == \E r \in all_roles : r.name = role_name

\* RoleManager.id_from_name; raises ValueError when no role has the name,
\* which callers test with role_valid_name (NoId stands for the identifier
\* that is then not returned).
role_id_from_name(role_name) ==
    IF role_valid_name(role_name)
    THEN (CHOOSE r \in all_roles : r.name = role_name).id
    ELSE NoId

\* RoleManager.name_from_id; raises ValueError when no role has the id.
role_valid_id(role_id) == \E r \in all_roles : r.id = role_id

role_name_from_id(role_id) ==
    (CHOOSE r \in all_roles : r.id = role_id).name

\* AuthenticationProviderManager.valid_name
provider_valid_name(provider_name) ==
    \E p \in authentication_providers : p.name = provider_name

provider_id_from_name(provider_name) ==
    (CHOOSE p \in authentication_providers : p.name = provider_name).id

provider_valid_id(provider_id) ==
    \E p \in authentication_providers : p.id = provider_id

provider_name_from_id(provider_id) ==
    (CHOOSE p \in authentication_providers : p.id = provider_id).name

-----------------------------------------------------------------------------
(* Entity model: Team, User, UserReference *)

\* User.attrs, in the order of the source.  Of the fifteen properties the
\* model keeps one per type and obligation (cell_phone_number, country,
\* expiration_date, job_title and other are optional str like phone_number;
\* first_name and last_name are mandatory str like email).
attrs == <<
    [name |-> "active",                       type |-> "bool", mandatory |-> TRUE],
    [name |-> "allowed_ip_list",              type |-> "list", mandatory |-> FALSE],
    [name |-> "authentication_provider_name", type |-> "str",  mandatory |-> TRUE],
    [name |-> "email",                        type |-> "str",  mandatory |-> TRUE],
    [name |-> "locale_id",                    type |-> "int",  mandatory |-> TRUE],
    [name |-> "phone_number",                 type |-> "str",  mandatory |-> FALSE],
    [name |-> "roles",                        type |-> "list", mandatory |-> FALSE],
    [name |-> "username",                     type |-> "str",  mandatory |-> TRUE] >>

\* UserReference(username, authentication_provider_name)
UserReference(username, authentication_provider_name) ==
    [username |-> username,
     authentication_provider_name |-> authentication_provider_name]

\* User.__init__: roles become a set, a false allowed_ip_list becomes set().
User(username, authentication_provider_name, email, locale_id, roles, active, allowed_ip_list, phone_number, user_id) ==
    [user_id |-> user_id,
     username |-> username,
     email |-> email,
     authentication_provider_name |-> authentication_provider_name,
     locale_id |-> locale_id,
     roles |-> roles,
     active |-> active,
     allowed_ip_list |-> IF Truthy(allowed_ip_list) THEN allowed_ip_list ELSE "set()",
     phone_number |-> phone_number]

\* A constructor without the check (mutant).
TeamNameOk_unchecked(name, full_name) == TRUE

\* Team.__init__ accepts the team only if the last component of full_name is name.
TeamNameOk(name, full_name) == Last(split(full_name)) = name

Team(name, full_name, users, team_id) ==
    [team_id |-> team_id, name |-> name, full_name |-> full_name, users |-> users]

UserKey(user) == UserReference(user.username, user.authentication_provider_name)

\* list(x) for the allowed_ip_list of a call
list_of(value) == IF value = "set()" THEN "l:" ELSE value

-----------------------------------------------------------------------------
(* Model: the indexes *)

\* Model.__init__ without build_maps
Model(teams, users) ==
    [teams |-> teams, users |-> users,
     team_map |-> <<>>, user_map |-> <<>>, user_team_ids_map |-> <<>>]

Put(map, key, value) ==
    [k \in DOMAIN map \cup {key} |-> IF k = key THEN value ELSE map[k]]

\* A map rebuilt from the first reference of each team only (mutant).
update_user_team_ids_map_first(model) ==
    LET first(i) == IF model.teams[i].users = <<>> THEN {}
                    ELSE {model.teams[i].users[1]}
        refs == UNION {first(i) : i \in 1..Len(model.teams)}
    IN  [model EXCEPT !.user_team_ids_map =
            [key \in refs |->
                {model.teams[i].team_id :
                    i \in {j \in 1..Len(model.teams) : key \in first(j)}}]]

\* Model.update_user_team_ids_map: the map is rebuilt from the teams.
update_user_team_ids_map(model) ==
    LET refs == UNION {Range(model.teams[i].users) : i \in 1..Len(model.teams)}
    IN  [model EXCEPT !.user_team_ids_map =
            [key \in refs |->
                {model.teams[i].team_id :
                    i \in {j \in 1..Len(model.teams) : key \in Range(model.teams[j].users)}}]]

\* Model.build_maps, the loop over the teams: team_map is extended, never reset.
RECURSIVE build_team_map(_, _, _, _)
build_team_map(teams, i, map, errors) ==
    IF i > Len(teams) THEN [map |-> map, errors |-> errors]
    ELSE build_team_map(teams, i + 1, Put(map, teams[i].full_name, teams[i]),
            IF teams[i].full_name \in DOMAIN map
            THEN Append(errors, [error |-> "DuplicateTeam",
                                 team_full_name |-> teams[i].full_name])
            ELSE errors)

\* A loop over the users that overwrites a key already in the map without
\* recording it (mutant).
build_user_map_silent(users, i, map, errors) ==
    [map |-> [key \in DOMAIN map \cup {UserKey(users[k]) : k \in i..Len(users)} |->
                IF \E k \in i..Len(users) : UserKey(users[k]) = key
                THEN users[Max({k \in i..Len(users) : UserKey(users[k]) = key})]
                ELSE map[key]],
     errors |-> errors]

\* Model.build_maps, the loop over the users.
RECURSIVE build_user_map(_, _, _, _)
build_user_map(users, i, map, errors) ==
    IF i > Len(users) THEN [map |-> map, errors |-> errors]
    ELSE build_user_map(users, i + 1, Put(map, UserKey(users[i]), users[i]),
            IF UserKey(users[i]) \in DOMAIN map
            THEN Append(errors, [error |-> "DuplicateUser",
                                 user_reference |-> UserKey(users[i])])
            ELSE errors)

\* Model.build_maps: returns the model with its maps and the errors list.
build_maps(model, errors) ==
    LET t == build_team_map(model.teams, 1, model.team_map, errors)
        u == build_user_map(model.users, 1, model.user_map, t.errors)
    IN  [model |-> update_user_team_ids_map(
                      [model EXCEPT !.team_map = t.map, !.user_map = u.map]),
         errors |-> u.errors]

\* The Team object that team_map[full_name] refers to is the last team of
\* that full name in the list; assigning its team_id changes both.
LastIndexOf(teams, full_name) ==
    Max({i \in 1..Len(teams) : teams[i].full_name = full_name})

\* An assignment of team_id that reaches the entry of team_map and not the
\* team of the list (mutant).
set_team_id_map_only(model, full_name, team_id) ==
    [model EXCEPT !.team_map[full_name].team_id = team_id]

set_team_id(model, full_name, team_id) ==
    [model EXCEPT
        !.team_map[full_name].team_id = team_id,
        !.teams[LastIndexOf(model.teams, full_name)].team_id = team_id]

\* update_team_ids that gives no identifier to the desired teams (mutant).
update_team_ids_none(self, other) == update_user_team_ids_map(self)

\* Model.update_team_ids, the loop over other.teams.
RECURSIVE update_team_ids_from(_, _, _)
update_team_ids_from(self, other_teams, i) ==
    IF i > Len(other_teams) THEN self
    ELSE update_team_ids_from(
            IF other_teams[i].full_name \in DOMAIN self.team_map
            THEN set_team_id(self, other_teams[i].full_name, other_teams[i].team_id)
            ELSE self,
            other_teams, i + 1)

\* Model.update_team_ids
update_team_ids(self, other) ==
    update_user_team_ids_map(update_team_ids_from(self, other.teams, 1))

-----------------------------------------------------------------------------
(* Validation *)

\* validate_roles that stops at the first role the resolver does not know
\* (mutant).
validate_roles_once(user, roles, errors) ==
    IF \A r \in roles : role_valid_name(r) THEN errors
    ELSE Append(errors, [error |-> "InvalidRole", username |-> user.username,
                         role |-> CHOOSE r \in roles : ~role_valid_name(r)])

\* User.validate_roles: one InvalidRole for each role the resolver does not know.
RECURSIVE validate_roles(_, _, _)
validate_roles(user, roles, errors) ==
    IF roles = {} THEN errors
    ELSE LET role == CHOOSE r \in roles : TRUE
         IN  validate_roles(user, roles \ {role},
                IF role_valid_name(role) THEN errors
                ELSE Append(errors, [error |-> "InvalidRole",
                                     username |-> user.username, role |-> role]))

\* The loop over attrs with "not getattr(self, attr)" for "is None" (mutant).
RECURSIVE validate_attrs_falsy(_, _, _)
validate_attrs_falsy(user, i, errors) ==
    IF i > Len(attrs) THEN errors
    ELSE validate_attrs_falsy(user, i + 1,
            IF attrs[i].mandatory /\ ~Truthy(user[attrs[i].name])
            THEN Append(errors, [error |-> "MissingUserProperty",
                                 username |-> user.username,
                                 property |-> attrs[i].name])
            ELSE errors)

\* User.validate, the loop over attrs.
RECURSIVE validate_attrs(_, _, _)
validate_attrs(user, i, errors) ==
    IF i > Len(attrs) THEN errors
    ELSE validate_attrs(user, i + 1,
            IF attrs[i].mandatory /\ user[attrs[i].name] = None
            THEN Append(errors, [error |-> "MissingUserProperty",
                                 username |-> user.username,
                                 property |-> attrs[i].name])
            ELSE errors)

\* User.validate
User_validate(user, errors) ==
    LET e1 == validate_attrs(user, 1, errors)
        e2 == IF provider_valid_name(user.authentication_provider_name) THEN e1
              ELSE Append(e1, [error |-> "InvalidAuthenticationProviderName",
                               username |-> user.username,
                               authentication_provider_name |->
                                   user.authentication_provider_name])
    IN  validate_roles(user, user.roles, e2)

\* Model.validate_users
RECURSIVE validate_users(_, _, _)
validate_users(model, i, errors) ==
    IF i > Len(model.users) THEN errors
    ELSE LET e1 == User_validate(model.users[i], errors)
         IN  validate_users(model, i + 1,
                IF UserKey(model.users[i]) \notin DOMAIN model.user_team_ids_map
                THEN Append(e1, [error |-> "NoTeam",
                                 username |-> model.users[i].username,
                                 authentication_provider_name |->
                                     model.users[i].authentication_provider_name])
                ELSE e1)

\* Users.__contains__
Users_contains(users, user_ref) ==
    \E i \in 1..Len(users) : UserKey(users[i]) = user_ref

\* The options of a command.  The validate subcommand has the flag
\* --retrieve-user-entries ("b:True" when given, "b:False" otherwise); the
\* namespace of the update subcommand has no such attribute, which "absent"
\* stands for.
Options(retrieve_user_entries) == [retrieve_user_entries |-> retrieve_user_entries]

UpdateOptions == Options("absent")

\* Users.__init__: the defaults of the users collection (default_roles is a
\* set, never None, and no attribute but these four has a default).
Users_defaults(default_active, default_authentication_provider_name, default_locale_id) ==
    [active |-> default_active,
     authentication_provider_name |-> default_authentication_provider_name,
     locale_id |-> default_locale_id,
     roles |-> {}]

NoDefaults == Users_defaults(None, None, None)

\* User.to_dict, kwargs.get(f'default_{attr}')
default_value(defaults, attr) ==
    IF attr \in DOMAIN defaults THEN defaults[attr] ELSE None

\* User.to_dict raises ValueError for a mandatory attribute that is None and
\* has no default.
User_to_dict_raises(user, defaults) ==
    \E i \in 1..Len(attrs) :
        /\ attrs[i].mandatory
        /\ user[attrs[i].name] = None
        /\ default_value(defaults, attrs[i].name) = None

\* Model.save_users -> Users.save -> Users.to_dict: every user is converted.
save_users_raises(users, defaults) ==
    \E i \in 1..Len(users) : User_to_dict_raises(users[i], defaults)

\* AuthenticationProviderManager.ldap_servers
ldap_servers == {[id |-> 3, name |-> "LDAP"]}

\* AuthenticationProviderManager.get_ldap_server_id raises ValueError when no
\* LDAP server has the name.
ldap_server_valid_name(ldap_server_name) ==
    \E s \in ldap_servers : s.name = ldap_server_name

get_ldap_server_id(ldap_server_name) ==
    (CHOOSE s \in ldap_servers : s.name = ldap_server_name).id

\* ac_api.get_user_entries_by_search_criteria: the entries the directory
\* returns for a username pattern (MockCxSAST.handle_GET).
get_user_entries_by_search_criteria(ldap_user_entries, ldap_server_id, username) ==
    IF ldap_server_id = 3 /\ username \in DOMAIN ldap_user_entries
    THEN ldap_user_entries[username]
    ELSE <<>>

\* add_user_entry that makes the new user the only user (mutant).
add_user_entry_only(acc, user_ref, user_entry, defaults) ==
    LET user == User(user_ref.username, user_ref.authentication_provider_name,
                     user_entry.email, None, {}, None, None, None, NoId)
    IN  [acc EXCEPT !.users = <<user>>,
                    !.raised = save_users_raises(<<user>>, defaults)]

\* Model.add_user_entry: the user is appended to self.users, and the users
\* file is saved, which raises when a user cannot be written.
add_user_entry(acc, user_ref, user_entry, defaults) ==
    LET user == User(user_ref.username, user_ref.authentication_provider_name,
                     user_entry.email, None, {}, None, None, None, NoId)
        users == Append(acc.users, user)
    IN  [acc EXCEPT !.users = users,
                    !.raised = save_users_raises(users, defaults)]

\* Model.retrieve_user_entries: the first entry whose username equals the
\* reference's is added; MissingLDAPUser when there is none.
retrieve_user_entries(acc, user_ref, defaults, ldap_user_entries) ==
    IF ~ldap_server_valid_name(user_ref.authentication_provider_name)
    THEN [acc EXCEPT !.raised = TRUE]
    ELSE LET user_entries == get_user_entries_by_search_criteria(ldap_user_entries,
                                 get_ldap_server_id(user_ref.authentication_provider_name),
                                 user_ref.username)
             found == {k \in 1..Len(user_entries) :
                          user_entries[k].username = user_ref.username}
         IN  IF found # {}
             THEN add_user_entry(acc, user_ref, user_entries[Min(found)], defaults)
             ELSE [acc EXCEPT !.errors =
                      Append(acc.errors, [error |-> "MissingLDAPUser",
                                          user_ref |-> user_ref])]

\* Model.validate_team.  acc holds self.users, the errors list and whether an
\* exception has been raised (which ends the validation).
RECURSIVE validate_team(_, _, _, _, _, _)
validate_team(team, j, acc, defaults, options, ldap_user_entries) ==
    IF j > Len(team.users) \/ acc.raised THEN acc
    ELSE validate_team(team, j + 1,
            IF Users_contains(acc.users, team.users[j]) THEN acc
            ELSE IF options.retrieve_user_entries = "absent"
            THEN [acc EXCEPT !.raised = TRUE]
            ELSE IF Truthy(options.retrieve_user_entries)
            THEN retrieve_user_entries(acc, team.users[j], defaults, ldap_user_entries)
            ELSE [acc EXCEPT !.errors =
                     Append(acc.errors, [error |-> "MissingUser",
                                         user_ref |-> team.users[j]])],
            defaults, options, ldap_user_entries)

\* Model.validate_teams
RECURSIVE validate_teams(_, _, _, _, _, _)
validate_teams(teams, i, acc, defaults, options, ldap_user_entries) ==
    IF i > Len(teams) \/ acc.raised THEN acc
    ELSE validate_teams(teams, i + 1,
            validate_team(teams[i], 1, acc, defaults, options, ldap_user_entries),
            defaults, options, ldap_user_entries)

\* Model.validate: returns the model with its maps built and the errors, or
\* raises.
validate(model, defaults, options, ldap_user_entries) ==
    LET b == build_maps(model, <<>>)
        e1 == validate_users(b.model, 1, b.errors)
        t == validate_teams(b.model.teams, 1,
                 [users |-> b.model.users, errors |-> e1, raised |-> FALSE],
                 defaults, options, ldap_user_entries)
    IN  [model |-> [b.model EXCEPT !.users = t.users],
         errors |-> t.errors,
         raised |-> t.raised]

\* Model.__init__ with build_maps=True: RuntimeError when build_maps records
\* an error.
Model_build_maps(teams, users) ==
    LET b == build_maps(Model(teams, users), <<>>)
    IN  [model |-> b.model, errors |-> b.errors, raised |-> b.errors # <<>>]

-----------------------------------------------------------------------------
(* The directory (Access Control), as the tests' MockCxSAST implements it *)

\* MockCxSAST.get_next_id: one more than the greatest identifier in use (the
\* first identifier of an empty collection is 1).
get_next_id(items) == Max({items[i].id : i \in 1..Len(items)} \cup {0}) + 1

\* MockCxSAST.generate_team_full_name finds the parent by its identifier.
has_team_id(teams, team_id) == \E i \in 1..Len(teams) : teams[i].id = team_id

team_by_id(teams, team_id) == teams[CHOOSE i \in 1..Len(teams) : teams[i].id = team_id]

\* MockCxSAST.handle_POST, Teams: the full name is the parent's full name,
\* a slash and the name.
create_new_team(teams, team_name, team_parent_id) ==
    Append(teams, [id |-> get_next_id(teams),
                   name |-> team_name,
                   full_name |-> team_by_id(teams, team_parent_id).full_name
                                    \o <<SLASH>> \o team_name])

\* MockCxSAST.handle_DELETE, Teams
delete_a_team(teams, team_id) == SelectSeq(teams, LAMBDA t : t.id # team_id)

\* ac_api.get_team_id_by_full_name: None when no team has the full name.
get_team_id_by_full_name(teams, full_name) ==
    IF \E i \in 1..Len(teams) : teams[i].full_name = full_name
    THEN teams[CHOOSE i \in 1..Len(teams) : teams[i].full_name = full_name].id
    ELSE NoId

\* MockCxSAST.handle_POST, Users
create_new_user(users, user, role_ids, team_ids, authentication_provider_id) ==
    Append(users, [id |-> get_next_id(users),
                   username |-> user.username,
                   authentication_provider_id |-> authentication_provider_id,
                   email |-> user.email,
                   locale_id |-> user.locale_id,
                   role_ids |-> role_ids,
                   team_ids |-> team_ids,
                   active |-> user.active,
                   allowed_ip_list |-> list_of(user.allowed_ip_list),
                   phone_number |-> user.phone_number])

\* MockCxSAST.handle_DELETE, Users
delete_a_user(users, user_id) == SelectSeq(users, LAMBDA u : u.id # user_id)

\* MockCxSAST.handle_PUT: every key of the request replaces the user's value.
update_a_user(users, updates) ==
    [i \in 1..Len(users) |->
        IF users[i].id = updates.user_id
        THEN [k \in DOMAIN users[i] |->
                IF k \in DOMAIN updates THEN updates[k] ELSE users[i][k]]
        ELSE users[i]]

\* create_team: the directory after the call, untouched in a dry run.
create_team(teams, team_name, team_parent_id, dry) ==
    IF dry THEN teams ELSE create_new_team(teams, team_name, team_parent_id)

\* delete_team that deletes in a dry run too (mutant).
delete_team_always(teams, team_id, dry) == delete_a_team(teams, team_id)

\* delete_team
delete_team(teams, team_id, dry) ==
    IF dry THEN teams ELSE delete_a_team(teams, team_id)

\* create_user, given the identifiers it resolved.
create_user(users, user, role_ids, team_ids, authentication_provider_id, dry) ==
    IF dry THEN users
    ELSE create_new_user(users, user, role_ids, team_ids, authentication_provider_id)

\* delete_user
delete_user(users, user, dry) ==
    IF dry THEN users ELSE delete_a_user(users, user.user_id)

\* update_user, given the request it built.
update_user(users, updates, dry) ==
    IF dry THEN users ELSE update_a_user(users, updates)

-----------------------------------------------------------------------------
(* Model.retrieve_from_access_control *)

\* The retrieval raises when a team's name is not the last component of its
\* full name, a role or provider identifier is unknown, a user names a team
\* identifier that no team has, or two teams or users collide in build_maps.
retrievable(cx_teams, cx_users) ==
    /\ \A i \in 1..Len(cx_teams) : TeamNameOk(cx_teams[i].name, cx_teams[i].full_name)
    /\ \A i \in 1..Len(cx_users) :
        /\ \A r \in cx_users[i].role_ids : role_valid_id(r)
        /\ provider_valid_id(cx_users[i].authentication_provider_id)
        /\ \A t \in cx_users[i].team_ids : has_team_id(cx_teams, t)
    /\ \A i, j \in 1..Len(cx_teams) :
        cx_teams[i].full_name = cx_teams[j].full_name => i = j
    /\ \A i, j \in 1..Len(cx_users) :
        (/\ cx_users[i].username = cx_users[j].username
         /\ cx_users[i].authentication_provider_id = cx_users[j].authentication_provider_id)
            => i = j

retrieved_user(cx_user) ==
    User(cx_user.username,
         provider_name_from_id(cx_user.authentication_provider_id),
         cx_user.email, cx_user.locale_id,
         {role_name_from_id(r) : r \in cx_user.role_ids},
         cx_user.active, cx_user.allowed_ip_list, cx_user.phone_number,
         cx_user.id)

\* The user references appended to the team that team_map[team_id] names:
\* with unique identifiers, a reference for each user who lists the team.
RECURSIVE retrieved_refs(_, _, _)
retrieved_refs(cx_users, i, team_id) ==
    IF i > Len(cx_users) THEN <<>>
    ELSE (IF team_id \in cx_users[i].team_ids
          THEN <<UserKey(retrieved_user(cx_users[i]))>>
          ELSE <<>>) \o retrieved_refs(cx_users, i + 1, team_id)

retrieve_from_access_control(cx_teams, cx_users) ==
    build_maps(
        Model([i \in 1..Len(cx_teams) |->
                  Team(cx_teams[i].name, cx_teams[i].full_name,
                       retrieved_refs(cx_users, 1, cx_teams[i].id), cx_teams[i].id)],
              [i \in 1..Len(cx_users) |-> retrieved_user(cx_users[i])]),
        <<>>).model

-----------------------------------------------------------------------------
(* User.get_updates *)

\* The attributes get_updates compares: attrs without the identity and roles.
update_attrs ==
    SelectSeq(attrs, LAMBDA p :
        p.name \notin {"authentication_provider_name", "roles", "username"})

changed_attrs(self, other) ==
    {update_attrs[i].name : i \in
        {j \in 1..Len(update_attrs) :
            ~attr_equal(self[update_attrs[j].name], other[update_attrs[j].name],
                        update_attrs[j].type)}}

\* get_updates raises ValueError for two different identities, and when a
\* role whose identifier it looks up is unknown.
get_updates_raises(self, other) ==
    \/ self.username # other.username
    \/ self.authentication_provider_name # other.authentication_provider_name
    \/ \E r \in (IF self.roles # other.roles THEN other.roles ELSE self.roles) :
          ~role_valid_name(r)

\* found_updates that does not compare the team ids (mutant).
found_updates_no_teams(self, other, old_team_ids, new_team_ids) ==
    \/ changed_attrs(self, other) # {}
    \/ self.roles # other.roles

found_updates(self, other, old_team_ids, new_team_ids) ==
    \/ changed_attrs(self, other) # {}
    \/ old_team_ids # new_team_ids
    \/ self.roles # other.roles

\* get_updates that carries only the attributes that changed (mutant).
updates_dict_changed_only(self, other, old_team_ids, new_team_ids) ==
    [a \in changed_attrs(self, other) |-> other[a]]
    @@ [team_ids |-> new_team_ids,
        role_ids |-> {role_id_from_name(r) : r \in other.roles}]

\* The dictionary get_updates builds: an entry for every compared attribute,
\* the other user's value where it changed and this user's where it did not.
updates_dict(self, other, old_team_ids, new_team_ids) ==
    [a \in {update_attrs[i].name : i \in 1..Len(update_attrs)} |->
        IF a \in changed_attrs(self, other) THEN other[a] ELSE self[a]]
    @@ [team_ids |-> IF old_team_ids # new_team_ids THEN new_team_ids ELSE old_team_ids,
        role_ids |-> IF self.roles # other.roles
                     THEN {role_id_from_name(r) : r \in other.roles}
                     ELSE {role_id_from_name(r) : r \in self.roles}]

\* update_users adds the user_id; update_user turns the containers into lists.
update_request(updates, user_id) ==
    [k \in DOMAIN updates |->
        IF k = "allowed_ip_list" THEN list_of(updates[k]) ELSE updates[k]]
    @@ [user_id |-> user_id]

\* User.get_updates: raises, or returns None (no dictionary) or the dictionary.
get_updates(self, other, old_team_ids, new_team_ids) ==
    IF get_updates_raises(self, other)
    THEN [raised |-> TRUE, updates |-> <<>>]
    ELSE [raised |-> FALSE,
          updates |-> IF found_updates(self, other, old_team_ids, new_team_ids)
                      THEN <<updates_dict(self, other, old_team_ids, new_team_ids)>>
                      ELSE <<>>]

\* update_users, the body of its loop once the users and their team ids are
\* found: the requests it passes to ac_api.update_a_user (none or one), or
\* the exception of get_updates or of update_user (a false user_id).
update_users_turn(old_user, new_user, old_team_ids, new_team_ids) ==
    LET updates == get_updates(old_user, new_user, old_team_ids, new_team_ids)
    IN  IF updates.raised THEN [raised |-> TRUE, requests |-> <<>>]
        ELSE IF updates.updates = <<>> THEN [raised |-> FALSE, requests |-> <<>>]
        ELSE IF old_user.user_id = NoId THEN [raised |-> TRUE, requests |-> <<>>]
        ELSE [raised |-> FALSE,
              requests |-> <<update_request(updates.updates[1], old_user.user_id)>>]

-----------------------------------------------------------------------------
(* The directories and the files the runs start from *)

N_r == <<47, 114>>                      \* "/r"
N_r_a == <<47, 114, 45, 97>>            \* "/r-a"
N_ra == <<47, 114, 47, 97>>             \* "/r/a"
N_rab == <<47, 114, 47, 97, 47, 98>>    \* "/r/a/b"

TeamNames == {N_r, N_r_a, N_ra, N_rab}

K1 == UserReference("alice", "Application")
K2 == UserReference("alice", "LDAP")
K3 == UserReference("bob", "Application")

Keys == <<K1, K2, K3>>

\* Attribute values a user of the directory may hold.
DirProfiles ==
    [D1 |-> [email |-> "s:a@x", locale_id |-> "i:1", roles |-> {"Admin"},
             active |-> "b:True", allowed_ip_list |-> "l:", phone_number |-> "s:"],
     D2 |-> [email |-> "s:a@x", locale_id |-> "i:1", roles |-> {},
             active |-> "none", allowed_ip_list |-> "l:", phone_number |-> "none"],
     D3 |-> [email |-> "s:a@x", locale_id |-> "i:1", roles |-> {"Reviewer"},
             active |-> "b:False", allowed_ip_list |-> "l:10.0.0.1",
             phone_number |-> "s:555"]]

\* Attribute values a user of the files may hold.
FileProfiles ==
    [D1 |-> [email |-> "s:a@x", locale_id |-> "i:1", roles |-> {"Admin"},
             active |-> "b:True", allowed_ip_list |-> "none", phone_number |-> "none"],
     D2 |-> [email |-> "s:a@x", locale_id |-> "i:1", roles |-> {},
             active |-> "b:False", allowed_ip_list |-> "l:", phone_number |-> "s:"],
     D3 |-> [email |-> "s:b@x", locale_id |-> "i:1", roles |-> {"Admin", "Reviewer"},
             active |-> "b:False", allowed_ip_list |-> "l:10.0.0.1",
             phone_number |-> "s:555"]]

\* The teams of a directory: every team but the root has its parent.
DirTeamSets ==
    {S \in SUBSET TeamNames :
        /\ N_r \in S
        /\ Cardinality(S) <= MaxTeams
        /\ \A n \in S : n = N_r \/ get_team_parent_name(n) \in S}

FileTeamSets == {S \in SUBSET TeamNames : Cardinality(S) <= MaxTeams}

\* A user's place: a profile and the teams that list the user.
Places(profiles, memberships) ==
    {[profile |-> p, teams |-> m] : p \in profiles, m \in memberships}

\* The users of one side: a place for each key of some set of at most MaxUsers keys.
UserSets(places) ==
    UNION {{f \in [D -> UNION {places[k] : k \in D}] : \A k \in D : f[k] \in places[k]} :
              D \in {D \in SUBSET DOMAIN places : Cardinality(D) <= MaxUsers}}

\* The memberships of bob: the first team, the last team, or both.
Ends(S) ==
    IF S = {} THEN {}
    ELSE {{Head(SetToSeq(S))}, {Last(SetToSeq(S))}, {Head(SetToSeq(S)), Last(SetToSeq(S))}}

\* Either the team sets vary and bob alone may exist on each side, or the team
\* sets are fixed and the users vary.
TeamScenarios ==
    UNION {{[dt |-> x[1], du |-> du, ft |-> x[2], fu |-> fu] :
               du \in UserSets([k \in {K3} |-> Places({"D1"}, Ends(x[1]))]),
               fu \in UserSets([k \in {K3} |-> Places({"D1"}, Ends(x[2]))])} :
           x \in DirTeamSets \X FileTeamSets}

UserScenarios ==
    {[dt |-> {N_r, N_ra}, du |-> du, ft |-> {N_r, N_ra}, fu |-> fu] :
        du \in UserSets([k \in {K1, K2, K3} |->
                 IF k = K1 THEN Places({"D1", "D2", "D3"}, SUBSET {N_r, N_ra})
                 ELSE Places({"D1"}, {{N_r}})]),
        fu \in UserSets([k \in {K1, K2, K3} |->
                 IF k = K1 THEN Places({"D1", "D2", "D3"}, SUBSET {N_r, N_ra} \ {{}})
                 ELSE Places({"D1"}, {{N_r}})])}

Scenarios == TeamScenarios \cup UserScenarios

KeysIn(users) == SelectSeq(Keys, LAMBDA k : k \in DOMAIN users)

\* The directory's teams, with the identifiers 1, 2, ...
DirTeams(names) ==
    [i \in 1..Cardinality(names) |->
        [id |-> i, name |-> Last(split(SetToSeq(names)[i])), full_name |-> SetToSeq(names)[i]]]

DirTeamId(names, full_name) ==
    CHOOSE i \in 1..Cardinality(names) : SetToSeq(names)[i] = full_name

\* The directory's users, with the identifiers 1, 2, ...
DirUsers(names, users) ==
    [i \in 1..Len(KeysIn(users)) |->
        LET k == KeysIn(users)[i]
            p == DirProfiles[users[k].profile]
        IN  [id |-> i,
             username |-> k.username,
             authentication_provider_id |->
                 provider_id_from_name(k.authentication_provider_name),
             email |-> p.email,
             locale_id |-> p.locale_id,
             role_ids |-> {role_id_from_name(r) : r \in p.roles},
             team_ids |-> {DirTeamId(names, n) : n \in users[k].teams},
             active |-> p.active,
             allowed_ip_list |-> p.allowed_ip_list,
             phone_number |-> p.phone_number]]

\* Model.load: the teams and users of the files, without identifiers.
Files(names, users) ==
    [teams |->
        [i \in 1..Cardinality(names) |->
            Team(Last(split(SetToSeq(names)[i])), SetToSeq(names)[i],
                 SelectSeq(Keys, LAMBDA k :
                     k \in DOMAIN users /\ SetToSeq(names)[i] \in users[k].teams),
                 NoId)],
     users |->
        [i \in 1..Len(KeysIn(users)) |->
            LET k == KeysIn(users)[i]
                p == FileProfiles[users[k].profile]
            IN  User(k.username, k.authentication_provider_name, p.email, p.locale_id,
                     p.roles, p.active, p.allowed_ip_list, p.phone_number, NoId)]]

Model_load(f) == Model(f.teams, f.users)

\* Model.load raises when Team.load_dir does: Team.from_dict constructs the
\* team of each file, and Team.__init__ raises ValueError on a full name
\* whose last component is not the name.
Model_load_raises(f) ==
    \E i \in 1..Len(f.teams) : ~TeamNameOk(f.teams[i].name, f.teams[i].full_name)

NoModel == Model(<<>>, <<>>)

Init ==
    /\ \E sc \in Scenarios :
        /\ dir_teams = DirTeams(sc.dt)
        /\ dir_users = DirUsers(sc.dt, sc.du)
        /\ files = Files(sc.ft, sc.fu)
    /\ dry_run = FALSE
    /\ cur_model = NoModel
    /\ new_model = NoModel
    /\ team_map = <<>>
    /\ todo = <<>>
    /\ calls = <<>>
    /\ pc = "retrieve"
    /\ run = 1
    /\ prev_calls = <<>>
    /\ diff_in = <<>>
    /\ diff_out = <<>>

-----------------------------------------------------------------------------
(* update(): retrieve, validate, update_team_ids, apply_changes *)

\* sorted() of UserReference objects: the class defines no order, so sorted
\* raises TypeError as soon as it has two of them to compare.
sorted_users_raises(S) == Cardinality(S) >= 2

\* sorted() that returns no user (mutant).
sorted_users_none(S) == <<>>

sorted_users(S) == IF S = {} THEN <<>> ELSE <<CHOOSE k \in S : TRUE>>

Remove(seq, i) == SubSeq(seq, 1, i - 1) \o SubSeq(seq, i + 1, Len(seq))

\* update(), line 1066: cur_model = Model.retrieve_from_access_control()
Retrieve ==
    /\ pc = "retrieve"
    /\ IF retrievable(dir_teams, dir_users)
       THEN /\ cur_model' = retrieve_from_access_control(dir_teams, dir_users)
            /\ pc' = "validate"
       ELSE /\ cur_model' = cur_model
            /\ pc' = "failed"
    /\ UNCHANGED <<dir_teams, dir_users, files, dry_run, new_model, team_map, todo,
                   calls, run, prev_calls, diff_in, diff_out>>

\* update(), line 1067: new_model = validate(options), which loads the files
\* and raises ModelValidationError when validate returns errors.
Validate ==
    /\ pc = "validate"
    /\ IF Model_load_raises(files)
       THEN /\ new_model' = new_model
            /\ pc' = "failed"
       ELSE LET v == validate(Model_load(files), NoDefaults, UpdateOptions, <<>>)
            IN  /\ new_model' = v.model
                /\ pc' = IF v.raised THEN "failed"
                         ELSE IF v.errors = <<>> THEN "update_team_ids" ELSE "invalid"
    /\ UNCHANGED <<dir_teams, dir_users, files, dry_run, cur_model, team_map, todo,
                   calls, run, prev_calls, diff_in, diff_out>>

\* update(), line 1069: new_model.update_team_ids(cur_model)
UpdateTeamIds ==
    /\ pc = "update_team_ids"
    /\ new_model' = update_team_ids(new_model, cur_model)
    /\ pc' = "apply_changes"
    /\ UNCHANGED <<dir_teams, dir_users, files, dry_run, cur_model, team_map, todo,
                   calls, run, prev_calls, diff_in, diff_out>>

\* apply_changes: update_team_ids once more, then add_teams up to its loop.
ApplyChanges ==
    /\ pc = "apply_changes"
    /\ new_model' = update_team_ids(new_model, cur_model)
    /\ team_map' = new_model'.team_map
    /\ todo' = sorted(DOMAIN new_model'.team_map \ DOMAIN cur_model.team_map)
    /\ pc' = "add_teams"
    /\ UNCHANGED <<dir_teams, dir_users, files, dry_run, cur_model,
                   calls, run, prev_calls, diff_in, diff_out>>

\* add_teams, one turn of the loop: the parent's identifier is looked up in
\* the copied team_map (KeyError when the parent is not a team of the new
\* model), the team is created and its identifier read back.
AddTeam ==
    /\ pc = "add_teams"
    /\ todo # <<>>
    /\ LET team_full_name == Head(todo)
           team == new_model.team_map[team_full_name]
           parent_full_name == get_team_parent_name(team_full_name)
       IN  IF parent_full_name \notin DOMAIN team_map
           THEN /\ pc' = "failed"
                /\ UNCHANGED <<dir_teams, new_model, team_map, todo, calls>>
           ELSE LET parent_id == team_map[parent_full_name].team_id
                    created == create_team(dir_teams, team.name, parent_id, dry_run)
                    team_id == get_team_id_by_full_name(created, team.full_name)
                    call(read_back) ==
                            [op |-> "create_team", team_name |-> team.name,
                             team_parent_id |-> parent_id, sent |-> ~dry_run,
                             full_name |-> team_full_name, team_id |-> read_back]
                IN  IF ~dry_run /\ ~has_team_id(dir_teams, parent_id)
                    THEN /\ pc' = "failed"
                         /\ calls' = Append(calls, call(NoId))
                         /\ UNCHANGED <<dir_teams, new_model, team_map, todo>>
                    ELSE /\ dir_teams' = created
                         /\ new_model' = set_team_id(new_model, team_full_name, team_id)
                         /\ team_map' = Put(team_map, team_full_name,
                                            [team EXCEPT !.team_id = team_id])
                         /\ calls' = Append(calls, call(team_id))
                         /\ todo' = Tail(todo)
                         /\ pc' = pc
    /\ UNCHANGED <<dir_users, files, dry_run, cur_model, run, prev_calls,
                   diff_in, diff_out>>

\* add_teams after its loop, then add_users up to its loop.
AddTeamsEnd ==
    /\ pc = "add_teams"
    /\ todo = <<>>
    /\ new_model' = update_user_team_ids_map([new_model EXCEPT !.team_map = team_map])
    /\ LET users_to_create == DOMAIN new_model'.user_map \ DOMAIN cur_model.user_map
       IN  IF sorted_users_raises(users_to_create)
           THEN pc' = "failed" /\ todo' = <<>>
           ELSE pc' = "add_users" /\ todo' = sorted_users(users_to_create)
    /\ UNCHANGED <<dir_teams, dir_users, files, dry_run, cur_model, team_map,
                   calls, run, prev_calls, diff_in, diff_out>>

\* create_user that resolves nothing before the call (mutant).
create_user_unresolved(user) == FALSE

\* create_user raises ValueError when the provider or a role is unknown.
create_user_raises(user) ==
    \/ ~provider_valid_name(user.authentication_provider_name)
    \/ \E r \in user.roles : ~role_valid_name(r)

\* add_users, one turn of the loop: create_user(user, team_ids, dry_run)
AddUser ==
    /\ pc = "add_users"
    /\ todo # <<>>
    /\ LET userkey == Head(todo)
           user == new_model.user_map[userkey]
       IN  IF \/ userkey \notin DOMAIN new_model.user_team_ids_map
              \/ ~dry_run /\ create_user_raises(user)
           THEN /\ pc' = "failed"
                /\ UNCHANGED <<dir_users, todo, calls>>
           ELSE LET team_ids == new_model.user_team_ids_map[userkey]
                    role_ids == IF dry_run THEN {}
                                ELSE {role_id_from_name(r) : r \in user.roles}
                    provider_id ==
                        IF dry_run THEN NoId
                        ELSE provider_id_from_name(user.authentication_provider_name)
                IN  /\ calls' = Append(calls,
                            [op |-> "create_user", user |-> user, team_ids |-> team_ids,
                             role_ids |-> role_ids,
                             authentication_provider_id |-> provider_id,
                             sent |-> ~dry_run, userkey |-> userkey])
                    /\ dir_users' = create_user(dir_users, user, role_ids, team_ids,
                                                provider_id, dry_run)
                    /\ todo' = Tail(todo)
                    /\ pc' = pc
    /\ UNCHANGED <<dir_teams, files, dry_run, cur_model, new_model, team_map,
                   run, prev_calls, diff_in, diff_out>>

\* update_users up to its loop: the users of both models, a set.
AddUsersEnd ==
    /\ pc = "add_users"
    /\ todo = <<>>
    /\ todo' = SetToSeq(DOMAIN new_model.user_map \cap DOMAIN cur_model.user_map)
    /\ pc' = "update_users"
    /\ UNCHANGED <<dir_teams, dir_users, files, dry_run, cur_model, new_model,
                   team_map, calls, run, prev_calls, diff_in, diff_out>>

\* update_users, one turn of the loop over the set (in any order); the
\* lookups of the team ids raise KeyError for a user no team lists.
UpdateUser ==
    /\ pc = "update_users"
    /\ \E i \in 1..Len(todo) :
        LET userkey == todo[i]
            old_user == cur_model.user_map[userkey]
            new_user == new_model.user_map[userkey]
        IN  IF \/ userkey \notin DOMAIN cur_model.user_team_ids_map
               \/ userkey \notin DOMAIN new_model.user_team_ids_map
            THEN /\ pc' = "failed"
                 /\ UNCHANGED <<dir_users, todo, calls>>
            ELSE LET turn == update_users_turn(old_user, new_user,
                                 cur_model.user_team_ids_map[userkey],
                                 new_model.user_team_ids_map[userkey])
                 IN  IF turn.raised
                     THEN /\ pc' = "failed"
                          /\ UNCHANGED <<dir_users, todo, calls>>
                     ELSE IF turn.requests = <<>>
                     THEN /\ todo' = Remove(todo, i)
                          /\ pc' = pc
                          /\ UNCHANGED <<dir_users, calls>>
                     ELSE /\ calls' = Append(calls,
                                [op |-> "update_user", updates |-> turn.requests[1],
                                 sent |-> ~dry_run, userkey |-> userkey])
                          /\ dir_users' = update_user(dir_users, turn.requests[1],
                                                      dry_run)
                          /\ todo' = Remove(todo, i)
                          /\ pc' = pc
    /\ UNCHANGED <<dir_teams, files, dry_run, cur_model, new_model, team_map,
                   run, prev_calls, diff_in, diff_out>>

\* delete_users up to its loop.
UpdateUsersEnd ==
    /\ pc = "update_users"
    /\ todo = <<>>
    /\ LET users_to_delete == DOMAIN cur_model.user_map \ DOMAIN new_model.user_map
       IN  IF sorted_users_raises(users_to_delete)
           THEN pc' = "failed" /\ todo' = <<>>
           ELSE pc' = "delete_users" /\ todo' = sorted_users(users_to_delete)
    /\ UNCHANGED <<dir_teams, dir_users, files, dry_run, cur_model, new_model,
                   team_map, calls, run, prev_calls, diff_in, diff_out>>

\* delete_users, one turn of the loop: delete_user(user, dry_run)
DeleteUser ==
    /\ pc = "delete_users"
    /\ todo # <<>>
    /\ LET user == cur_model.user_map[Head(todo)]
       IN  /\ calls' = Append(calls, [op |-> "delete_user", user_id |-> user.user_id,
                                      sent |-> ~dry_run, userkey |-> Head(todo)])
           /\ dir_users' = delete_user(dir_users, user, dry_run)
    /\ todo' = Tail(todo)
    /\ UNCHANGED <<dir_teams, files, dry_run, cur_model, new_model, team_map, pc,
                   run, prev_calls, diff_in, diff_out>>

\* delete_teams up to its loop.
DeleteUsersEnd ==
    /\ pc = "delete_users"
    /\ todo = <<>>
    /\ todo' = sorted_reverse(DOMAIN cur_model.team_map \ DOMAIN new_model.team_map)
    /\ pc' = "delete_teams"
    /\ UNCHANGED <<dir_teams, dir_users, files, dry_run, cur_model, new_model,
                   team_map, calls, run, prev_calls, diff_in, diff_out>>

\* delete_teams, one turn of the loop: delete_team(team_id, dry_run)
DeleteTeam ==
    /\ pc = "delete_teams"
    /\ todo # <<>>
    /\ LET team_id == cur_model.team_map[Head(todo)].team_id
       IN  /\ calls' = Append(calls, [op |-> "delete_team", team_id |-> team_id,
                                      sent |-> ~dry_run, full_name |-> Head(todo)])
           /\ dir_teams' = delete_team(dir_teams, team_id, dry_run)
    /\ todo' = Tail(todo)
    /\ UNCHANGED <<dir_users, files, dry_run, cur_model, new_model, team_map, pc,
                   run, prev_calls, diff_in, diff_out>>

\* apply_changes returns.
DeleteTeamsEnd ==
    /\ pc = "delete_teams"
    /\ todo = <<>>
    /\ pc' = "done"
    /\ UNCHANGED <<dir_teams, dir_users, files, dry_run, cur_model, new_model,
                   team_map, todo, calls, run, prev_calls, diff_in, diff_out>>

\* update is invoked again with the same files.
Rerun ==
    /\ pc = "done"
    /\ run < MaxRuns
    /\ run' = run + 1
    /\ prev_calls' = calls
    /\ calls' = <<>>
    /\ cur_model' = NoModel
    /\ new_model' = NoModel
    /\ team_map' = <<>>
    /\ pc' = "retrieve"
    /\ UNCHANGED <<dir_teams, dir_users, files, dry_run, todo, diff_in, diff_out>>

Next ==
    \/ Retrieve
    \/ Validate
    \/ UpdateTeamIds
    \/ ApplyChanges
    \/ AddTeam
    \/ AddTeamsEnd
    \/ AddUser
    \/ AddUsersEnd
    \/ UpdateUser
    \/ UpdateUsersEnd
    \/ DeleteUser
    \/ DeleteUsersEnd
    \/ DeleteTeam
    \/ DeleteTeamsEnd
    \/ Rerun

Spec == Init /\ [][Next]_vars

-----------------------------------------------------------------------------
(* update() with --dry-run, then update() without it *)

InitDry ==
    /\ \E sc \in Scenarios :
        /\ dir_teams = DirTeams(sc.dt)
        /\ dir_users = DirUsers(sc.dt, sc.du)
        /\ files = Files(sc.ft, sc.fu)
    /\ dry_run = TRUE
    /\ cur_model = NoModel
    /\ new_model = NoModel
    /\ team_map = <<>>
    /\ todo = <<>>
    /\ calls = <<>>
    /\ pc = "retrieve"
    /\ run = 1
    /\ prev_calls = <<>>
    /\ diff_in = <<>>
    /\ diff_out = <<>>

\* update is invoked again with the same files, this time without --dry-run.
RealRun ==
    /\ pc \in {"done", "failed"}
    /\ dry_run
    /\ dry_run' = FALSE
    /\ run' = run + 1
    /\ prev_calls' = calls
    /\ calls' = <<>>
    /\ cur_model' = NoModel
    /\ new_model' = NoModel
    /\ team_map' = <<>>
    /\ pc' = "retrieve"
    /\ UNCHANGED <<dir_teams, dir_users, files, todo, diff_in, diff_out>>

NextDry ==
    \/ Retrieve
    \/ Validate
    \/ UpdateTeamIds
    \/ ApplyChanges
    \/ AddTeam
    \/ AddTeamsEnd
    \/ AddUser
    \/ AddUsersEnd
    \/ UpdateUser
    \/ UpdateUsersEnd
    \/ DeleteUser
    \/ DeleteUsersEnd
    \/ DeleteTeam
    \/ DeleteTeamsEnd
    \/ RealRun

SpecDry == InitDry /\ [][NextDry]_vars

-----------------------------------------------------------------------------
(* update() against a directory whose calls may raise *)

\* add_teams: ac_api.create_new_team raises, or the team is created and
\* ac_api.get_team_id_by_full_name raises; nothing in apply_changes catches it.
CreateTeamFails ==
    /\ pc = "add_teams"
    /\ todo # <<>>
    /\ ~dry_run
    /\ run < MaxRuns
    /\ get_team_parent_name(Head(todo)) \in DOMAIN team_map
    /\ has_team_id(dir_teams, team_map[get_team_parent_name(Head(todo))].team_id)
    /\ \E created \in BOOLEAN :
          dir_teams' = IF created
                       THEN create_team(dir_teams, new_model.team_map[Head(todo)].name,
                                team_map[get_team_parent_name(Head(todo))].team_id,
                                dry_run)
                       ELSE dir_teams
    /\ pc' = "aborted"
    /\ UNCHANGED <<dir_users, files, dry_run, cur_model, new_model, team_map, todo,
                   calls, run, prev_calls, diff_in, diff_out>>

\* add_users: ac_api.create_new_user raises.
CreateUserFails ==
    /\ pc = "add_users"
    /\ todo # <<>>
    /\ ~dry_run
    /\ run < MaxRuns
    /\ Head(todo) \in DOMAIN new_model.user_team_ids_map
    /\ ~create_user_raises(new_model.user_map[Head(todo)])
    /\ pc' = "aborted"
    /\ UNCHANGED <<dir_teams, dir_users, files, dry_run, cur_model, new_model,
                   team_map, todo, calls, run, prev_calls, diff_in, diff_out>>

\* update_users: ac_api.update_a_user raises.
UpdateUserFails ==
    /\ pc = "update_users"
    /\ ~dry_run
    /\ run < MaxRuns
    /\ \E i \in 1..Len(todo) :
          /\ todo[i] \in DOMAIN cur_model.user_team_ids_map
          /\ todo[i] \in DOMAIN new_model.user_team_ids_map
          /\ update_users_turn(cur_model.user_map[todo[i]], new_model.user_map[todo[i]],
                               cur_model.user_team_ids_map[todo[i]],
                               new_model.user_team_ids_map[todo[i]]).requests # <<>>
    /\ pc' = "aborted"
    /\ UNCHANGED <<dir_teams, dir_users, files, dry_run, cur_model, new_model,
                   team_map, todo, calls, run, prev_calls, diff_in, diff_out>>

\* delete_users: ac_api.delete_a_user raises.
DeleteUserFails ==
    /\ pc = "delete_users"
    /\ todo # <<>>
    /\ ~dry_run
    /\ run < MaxRuns
    /\ pc' = "aborted"
    /\ UNCHANGED <<dir_teams, dir_users, files, dry_run, cur_model, new_model,
                   team_map, todo, calls, run, prev_calls, diff_in, diff_out>>

\* delete_teams: ac_api.delete_a_team raises.
DeleteTeamFails ==
    /\ pc = "delete_teams"
    /\ todo # <<>>
    /\ ~dry_run
    /\ run < MaxRuns
    /\ pc' = "aborted"
    /\ UNCHANGED <<dir_teams, dir_users, files, dry_run, cur_model, new_model,
                   team_map, todo, calls, run, prev_calls, diff_in, diff_out>>

\* update is invoked again with the same files after a run that a remote
\* call ended.
RerunAfterAbort ==
    /\ pc = "aborted"
    /\ run < MaxRuns
    /\ run' = run + 1
    /\ prev_calls' = calls
    /\ calls' = <<>>
    /\ cur_model' = NoModel
    /\ new_model' = NoModel
    /\ team_map' = <<>>
    /\ pc' = "retrieve"
    /\ UNCHANGED <<dir_teams, dir_users, files, dry_run, todo, diff_in, diff_out>>

NextFail ==
    \/ Retrieve
    \/ Validate
    \/ UpdateTeamIds
    \/ ApplyChanges
    \/ AddTeam
    \/ AddTeamsEnd
    \/ AddUser
    \/ AddUsersEnd
    \/ UpdateUser
    \/ UpdateUsersEnd
    \/ DeleteUser
    \/ DeleteUsersEnd
    \/ DeleteTeam
    \/ DeleteTeamsEnd
    \/ CreateTeamFails
    \/ CreateUserFails
    \/ UpdateUserFails
    \/ DeleteUserFails
    \/ DeleteTeamFails
    \/ RerunAfterAbort

SpecFail == Init /\ [][NextFail]_vars

-----------------------------------------------------------------------------
(* User.get_updates and the turn of update_users on their own *)

\* The current user of a comparison, as User.__init__ leaves a retrieved user.
DiffSelfUsers ==
    {User("alice", "Application", "s:a@x", "i:1", roles, active, "set()",
          phone_number, 7) :
        roles \in {{}, {"Admin"}},
        active \in {"none", "b:True", "b:False"},
        phone_number \in {"none", "s:", "s:555"}}

\* The desired user of a comparison.
DiffOtherUsers ==
    {User("alice", provider, email, "i:1", roles, active, allowed_ip_list,
          phone_number, NoId) :
        provider \in {"Application", "LDAP"},
        email \in {"s:a@x", "s:b@x"},
        roles \in {{}, {"Admin"}, {"Admin", "Reviewer"}},
        active \in {"b:True", "b:False"},
        allowed_ip_list \in {"none", "l:10.0.0.1"},
        phone_number \in {"none", "s:", "s:555"}}

DiffTeamIds == {{1}, {1, 2}}

InitDiff ==
    /\ diff_in \in [self : DiffSelfUsers, other : DiffOtherUsers,
                    old_team_ids : DiffTeamIds, new_team_ids : DiffTeamIds]
    /\ diff_out = <<>>
    /\ pc = "diff"
    /\ dir_teams = <<>>
    /\ dir_users = <<>>
    /\ files = [teams |-> <<>>, users |-> <<>>]
    /\ dry_run = FALSE
    /\ cur_model = NoModel
    /\ new_model = NoModel
    /\ team_map = <<>>
    /\ todo = <<>>
    /\ calls = <<>>
    /\ run = 1
    /\ prev_calls = <<>>

\* old_user.get_updates(new_user, old_team_ids, new_team_ids) and the turn of
\* update_users that calls it.
GetUpdates ==
    /\ pc = "diff"
    /\ diff_out' =
        [updates |-> get_updates(diff_in.self, diff_in.other,
                                 diff_in.old_team_ids, diff_in.new_team_ids),
         turn |-> update_users_turn(diff_in.self, diff_in.other,
                                    diff_in.old_team_ids, diff_in.new_team_ids)]
    /\ pc' = "returned"
    /\ UNCHANGED <<dir_teams, dir_users, files, dry_run, cur_model, new_model,
                   team_map, todo, calls, run, prev_calls, diff_in>>

NextDiff == GetUpdates

SpecDiff == InitDiff /\ [][NextDiff]_vars

-----------------------------------------------------------------------------
(* Model.validate and Model(..., build_maps=True) on the models the files can
   hold, well-formed or not *)

\* Users a users file may list: a valid user, a second user of the same
\* identity without email, a user with one unknown role, a user of an unknown
\* provider, and a user without provider, locale and active whose roles are
\* all unknown.
ListedUsers ==
    {User("alice", "Application", "s:a@x", "i:1", {"Admin"}, "b:True", None, None, NoId),
     User("alice", "Application", None, "i:1", {}, "b:False", None, None, NoId),
     User("bob", "Application", "s:b@x", "i:1", {"Admin", "Ghost"}, "b:True", None, None, NoId),
     User("carol", "Nowhere", "s:c@x", "i:1", {}, "b:True", None, None, NoId),
     User("dave", None, "s:d@x", None, {"Ghost", "Phantom"}, None, None, None, NoId)}

ListsOf(S, n) == UNION {[1..k -> S] : k \in 0..n}

\* The identities the teams refer to; erin, frank and zed are never listed.
Ref ==
    [alice |-> UserReference("alice", "Application"),
     bob |-> UserReference("bob", "Application"),
     carol |-> UserReference("carol", "Nowhere"),
     dave |-> UserReference("dave", None),
     erin |-> UserReference("erin", "LDAP"),
     frank |-> UserReference("frank", "LDAP"),
     zed |-> UserReference("zed", "Application")]

\* The teams a teams directory may hold, as Model.load lists them.
ListedTeams ==
    {<<>>,
     <<Team(<<114>>, N_r, <<Ref.alice>>, NoId)>>,
     <<Team(<<114>>, N_r, <<Ref.bob>>, NoId)>>,
     <<Team(<<114>>, N_r, <<Ref.carol>>, NoId)>>,
     <<Team(<<114>>, N_r, <<Ref.alice, Ref.bob>>, NoId),
       Team(<<97>>, N_ra, <<Ref.bob, Ref.carol, Ref.dave>>, NoId)>>,
     <<Team(<<114>>, N_r, <<Ref.alice>>, NoId),
       Team(<<114>>, N_r, <<Ref.bob>>, NoId)>>,
     <<Team(<<114>>, N_r, <<Ref.alice>>, NoId),
       Team(<<114>>, N_r, <<Ref.bob>>, NoId),
       Team(<<97>>, N_ra, <<Ref.carol>>, NoId),
       Team(<<114>>, N_r, <<>>, NoId)>>,
     <<Team(<<114>>, N_r, <<Ref.alice, Ref.erin>>, NoId)>>,
     <<Team(<<114>>, N_r, <<Ref.erin, Ref.frank>>, NoId),
       Team(<<97>>, N_ra, <<Ref.erin, Ref.alice>>, NoId)>>,
     <<Team(<<114>>, N_r, <<Ref.alice, Ref.zed>>, NoId)>>}

\* What the directory answers to a search for a username: entries whose
\* username contains the pattern.
UserEntry(username, email) == [username |-> username, email |-> email]

LdapDirectories ==
    {[u \in {} |-> <<>>],
     [u \in {"erin", "frank"} |->
        IF u = "erin"
        THEN <<UserEntry("erin2", "s:e2@x"), UserEntry("erin", "s:e@x")>>
        ELSE <<UserEntry("frankie", "s:f@x")>>],
     [u \in {"erin", "frank"} |->
        IF u = "erin" THEN <<UserEntry("erin", None)>>
        ELSE <<UserEntry("frank", "s:f@x")>>]}

\* The options, the defaults of the users file and the directory's entries.
Environments ==
    [options : {UpdateOptions, Options("b:False")},
     defaults : {NoDefaults},
     ldap_user_entries : {[u \in {} |-> <<>>]}]
    \cup
    [options : {Options("b:True")},
     defaults : {NoDefaults, Users_defaults("b:True", None, "i:1")},
     ldap_user_entries : LdapDirectories]

InitValidate ==
    /\ files \in [teams : ListedTeams, users : ListsOf(ListedUsers, MaxListed)]
    /\ diff_in \in Environments
    /\ diff_out = <<>>
    /\ pc = "loaded"
    /\ dir_teams = <<>>
    /\ dir_users = <<>>
    /\ dry_run = FALSE
    /\ cur_model = NoModel
    /\ new_model = NoModel
    /\ team_map = <<>>
    /\ todo = <<>>
    /\ calls = <<>>
    /\ run = 1
    /\ prev_calls = <<>>

\* model = Model.load(options.data_dir); errors = model.validate(options)
ModelValidate ==
    /\ pc = "loaded"
    /\ diff_out' = validate(Model_load(files), diff_in.defaults, diff_in.options,
                            diff_in.ldap_user_entries)
    /\ pc' = "validated"
    /\ UNCHANGED <<dir_teams, dir_users, files, dry_run, cur_model, new_model,
                   team_map, todo, calls, run, prev_calls, diff_in>>

\* Model(teams, users, build_maps=True)
ModelBuildMaps ==
    /\ pc = "loaded"
    /\ diff_out' = Model_build_maps(files.teams, files.users)
    /\ pc' = "built"
    /\ UNCHANGED <<dir_teams, dir_users, files, dry_run, cur_model, new_model,
                   team_map, todo, calls, run, prev_calls, diff_in>>

\* errors = model.validate(options), once more on the model a first
\* validation or Model(teams, users, build_maps=True) returned; the errors of
\* the first call are kept next to those of the second.
ModelValidateAgain ==
    /\ pc \in {"validated", "built"}
    /\ ~diff_out.raised
    /\ LET v == validate(diff_out.model, diff_in.defaults, diff_in.options,
                         diff_in.ldap_user_entries)
       IN  diff_out' = [model |-> v.model, errors |-> v.errors, raised |-> v.raised,
                        first |-> diff_out.errors, given |-> diff_out.model]
    /\ pc' = IF pc = "validated" THEN "revalidated" ELSE "built_validated"
    /\ UNCHANGED <<dir_teams, dir_users, files, dry_run, cur_model, new_model,
                   team_map, todo, calls, run, prev_calls, diff_in>>

NextValidate == ModelValidate \/ ModelBuildMaps \/ ModelValidateAgain

SpecValidate == InitValidate /\ [][NextValidate]_vars

-----------------------------------------------------------------------------
(* ptum.py, the program's predecessor: teams hold their users and default
   roles, and validation compares a user across the teams that list it *)

\* ptum User.__init__, with the attributes validation reads.
ptum_User(username, email, roles) ==
    [username |-> username, email |-> email, roles |-> roles]

\* ptum Team.__init__ and Team.add_user
ptum_Team(name, full_name, default_roles, users) ==
    [name |-> name, full_name |-> full_name, default_roles |-> default_roles,
     users |-> users]

\* A Python dict as the sequence of its items in insertion order: d[key] =
\* value keeps the place of a key the dict has and appends a new key.
DictHas(d, key) == \E k \in 1..Len(d) : d[k].key = key

DictGet(d, key) == d[CHOOSE k \in 1..Len(d) : d[k].key = key].value

DictPut(d, key, value) ==
    IF DictHas(d, key)
    THEN [k \in 1..Len(d) |-> IF d[k].key = key THEN [key |-> key, value |-> value]
                              ELSE d[k]]
    ELSE Append(d, [key |-> key, value |-> value])

\* ptum Model.__init__, the loops over the teams and over a team's users.
RECURSIVE ptum_Model_from(_, _, _, _)
ptum_Model_from(teams, i, j, model) ==
    IF i > Len(teams) THEN model
    ELSE IF j = 0
    THEN ptum_Model_from(teams, i, 1,
            [model EXCEPT !.team_map = DictPut(@, teams[i].full_name, teams[i])])
    ELSE IF j > Len(teams[i].users) THEN ptum_Model_from(teams, i + 1, 0, model)
    ELSE LET user == teams[i].users[j]
             team_user_map == IF DictHas(model.user_map, user.username)
                              THEN DictGet(model.user_map, user.username)
                              ELSE <<>>
         IN  ptum_Model_from(teams, i, j + 1,
                [model EXCEPT !.user_map =
                    DictPut(@, user.username,
                            DictPut(team_user_map, teams[i].full_name, user))])

ptum_Model(teams) ==
    ptum_Model_from(teams, 1, 0, [teams |-> teams, team_map |-> <<>>, user_map |-> <<>>])

\* ptum Team.validate_default_roles
RECURSIVE ptum_validate_default_roles(_, _, _)
ptum_validate_default_roles(team, roles, errors) ==
    IF roles = {} THEN errors
    ELSE LET role == CHOOSE r \in roles : TRUE
         IN  ptum_validate_default_roles(team, roles \ {role},
                IF role_valid_name(role) THEN errors
                ELSE Append(errors, [error |-> "InvalidDefaultRole",
                                     team_full_name |-> team.full_name, role |-> role]))

\* ptum User.validate_roles
RECURSIVE ptum_validate_roles(_, _, _, _)
ptum_validate_roles(user, team_full_name, roles, errors) ==
    IF roles = {} THEN errors
    ELSE LET role == CHOOSE r \in roles : TRUE
         IN  ptum_validate_roles(user, team_full_name, roles \ {role},
                IF role_valid_name(role) THEN errors
                ELSE Append(errors, [error |-> "InvalidRole",
                                     team_full_name |-> team_full_name,
                                     username |-> user.username, role |-> role]))

\* get_user_roles with the team's default roles in every case (mutant).
get_user_roles_team(user, team) == team.default_roles

\* ptum Model.get_user_roles
get_user_roles(user, team) ==
    IF user.roles # {} THEN user.roles ELSE team.default_roles

InconsistentUser(property, username, team_a, team_b, value_a, value_b) ==
    [error |-> "InconsistentUser", property |-> property, username |-> username,
     team_a |-> team_a, team_b |-> team_b, value_a |-> value_a, value_b |-> value_b]

\* ptum Model.validate_user: the first item of team_user_map is the one every
\* later item is compared with.
RECURSIVE validate_user(_, _, _, _)
validate_user(model, team_user_map, k, errors) ==
    IF k > Len(team_user_map) THEN errors
    ELSE LET user == team_user_map[k].value
             team_full_name == team_user_map[k].key
             first_user == team_user_map[1].value
             first_team == DictGet(model.team_map, team_user_map[1].key)
             first_roles == get_user_roles(first_user, first_team)
             roles == get_user_roles(user, DictGet(model.team_map, team_full_name))
             e1 == ptum_validate_roles(user, team_full_name, user.roles, errors)
             e2 == IF k > 1 /\ user.email # first_user.email
                   THEN Append(e1, InconsistentUser("email", first_user.username,
                                       first_team.full_name, team_full_name,
                                       first_user.email, user.email))
                   ELSE e1
             e3 == IF k > 1 /\ first_roles # roles
                   THEN Append(e2, InconsistentUser("roles", first_user.username,
                                       first_team.full_name, team_full_name,
                                       first_roles, roles))
                   ELSE e2
         IN  validate_user(model, team_user_map, k + 1, e3)

\* ptum Model.validate_default_roles and Model.validate_users
RECURSIVE ptum_validate_from(_, _, _, _)
ptum_validate_from(model, i, u, errors) ==
    IF i <= Len(model.teams)
    THEN ptum_validate_from(model, i + 1, u,
            ptum_validate_default_roles(model.teams[i], model.teams[i].default_roles,
                                        errors))
    ELSE IF u <= Len(model.user_map)
    THEN ptum_validate_from(model, i, u + 1,
            validate_user(model, model.user_map[u].value, 1, errors))
    ELSE errors

\* ptum Model.validate
ptum_validate(model) == ptum_validate_from(model, 1, 1, <<>>)

\* What a team file may hold: its default roles and its users.
TeamContents ==
    {[default_roles |-> {"Admin"}, users |-> <<>>],
     [default_roles |-> {"Admin"}, users |-> <<ptum_User("alice", "s:a@x", {})>>],
     [default_roles |-> {"Reviewer"}, users |-> <<ptum_User("alice", "s:a@x", {})>>],
     [default_roles |-> {}, users |-> <<ptum_User("alice", "s:a@x", {})>>],
     [default_roles |-> {}, users |-> <<ptum_User("alice", "s:a@x", {"Admin"})>>],
     [default_roles |-> {"Admin"}, users |-> <<ptum_User("alice", "s:a@x", {"Reviewer"})>>],
     [default_roles |-> {}, users |-> <<ptum_User("alice", "s:b@x", {"Admin"})>>],
     [default_roles |-> {"Ghost"},
      users |-> <<ptum_User("bob", "s:b@x", {"Admin"}),
                  ptum_User("alice", "s:a@x", {"Reviewer", "Ghost"})>>]}

\* The teams Team.load_dir returns: up to MaxTeams teams; a team has a full
\* name of its own or, wrongly, the full name the first team has.
TeamLists ==
    UNION {{[i \in 1..n |->
                ptum_Team(Last(split(names[i])), names[i],
                          contents[i].default_roles, contents[i].users)] :
            names \in {f \in [1..n -> TeamNames] :
                          \A i \in 1..n : f[i] \in {SetToSeq(TeamNames)[i], SetToSeq(TeamNames)[1]}},
            contents \in [1..n -> TeamContents]} :
           n \in 0..MaxTeams}

InitPtum ==
    /\ files \in [teams : TeamLists, users : {<<>>}]
    /\ diff_in = <<>>
    /\ diff_out = <<>>
    /\ pc = "loaded"
    /\ dir_teams = <<>>
    /\ dir_users = <<>>
    /\ dry_run = FALSE
    /\ cur_model = NoModel
    /\ new_model = NoModel
    /\ team_map = <<>>
    /\ todo = <<>>
    /\ calls = <<>>
    /\ run = 1
    /\ prev_calls = <<>>

\* ptum validate(ac_api, options): model = Model(teams); errors = model.validate()
PtumValidate ==
    /\ pc = "loaded"
    /\ diff_out' = [model |-> ptum_Model(files.teams),
                    errors |-> ptum_validate(ptum_Model(files.teams))]
    /\ pc' = "validated"
    /\ UNCHANGED <<dir_teams, dir_users, files, dry_run, cur_model, new_model,
                   team_map, todo, calls, run, prev_calls, diff_in>>

NextPtum == PtumValidate

SpecPtum == InitPtum /\ [][NextPtum]_vars

-----------------------------------------------------------------------------
(* Serialization: User.to_dict, Users.to_dict and Users.load *)

\* bool(value), int(value), str(value) on the values of the model.
convert(type, value) ==
    IF type = "bool" THEN (IF Truthy(value) THEN "b:True" ELSE "b:False")
    ELSE IF type = "int"
    THEN (IF value = "b:True" THEN "i:1" ELSE IF value = "b:False" THEN "i:0" ELSE value)
    ELSE value

\* The condition without the comparison with the default (mutant).
emitted_despite_default(user, defaults, i) ==
    IF attrs[i].type = "list" THEN user[attrs[i].name] # {}
    ELSE /\ user[attrs[i].name] # None
         /\ (attrs[i].type = "bool" \/ Truthy(user[attrs[i].name]))

\* User.to_dict, the condition under which attrs[i] is emitted.  The roles
\* and the allowed_ip_list of a User are containers, never None; here they
\* are the sets of their elements.
emitted(user, defaults, i) ==
    LET attr == attrs[i].name
    IN  IF attrs[i].type = "list"
        THEN /\ (attr \in DOMAIN defaults => user[attr] # defaults[attr])
             /\ user[attr] # {}
        ELSE /\ user[attr] # None
             /\ ~PyEq(user[attr], default_value(defaults, attr))
             /\ (attrs[i].type = "bool" \/ Truthy(user[attr]))

\* User.to_dict, when it does not raise: the dictionary, as a function of the
\* emitted attributes; a container is emitted as the sorted list of its
\* elements.
User_to_dict(user, defaults) ==
    [attr \in {attrs[i].name : i \in {k \in 1..Len(attrs) : emitted(user, defaults, k)}} |->
        LET i == CHOOSE k \in 1..Len(attrs) : attrs[k].name = attr
        IN  IF attrs[i].type = "list" THEN sorted(user[attr])
            ELSE convert(attrs[i].type, user[attr])]

\* Users.to_dict: the users and the defaults that are not None;
\* default_roles, a set, is emitted as list(set).
Users_to_dict(users, defaults) ==
    [users |-> [i \in 1..Len(users) |-> User_to_dict(users[i], defaults)],
     defaults |-> [attr \in {a \in {"active", "authentication_provider_name", "locale_id"} :
                               defaults[a] # None} \cup {"roles"} |->
                      IF attr = "roles" THEN SetToSeq(defaults.roles) ELSE defaults[attr]]]

\* user_from_dict that fills nothing in (mutant).
user_from_dict_as_is(d, data) == d

\* Users.user_from_dict: an attribute the dictionary lacks and the file has a
\* default for gets the default.
user_from_dict(d, data) ==
    [attr \in DOMAIN d \cup
              (DOMAIN data.defaults \cap
               {"active", "authentication_provider_name", "locale_id", "roles"}) |->
        IF attr \in DOMAIN d THEN d[attr] ELSE data.defaults[attr]]

\* User(**d): a missing keyword is None, a missing username or provider name
\* is a TypeError.
User_from_kwargs_raises(d) ==
    ~({"username", "authentication_provider_name"} \subseteq DOMAIN d)

User_from_kwargs(d) ==
    [User(d.username, d.authentication_provider_name,
          IF "email" \in DOMAIN d THEN d.email ELSE None,
          IF "locale_id" \in DOMAIN d THEN d.locale_id ELSE None,
          IF "roles" \in DOMAIN d THEN Range(d.roles) ELSE {},
          IF "active" \in DOMAIN d THEN d.active ELSE None,
          None,
          IF "phone_number" \in DOMAIN d THEN d.phone_number ELSE None,
          NoId)
     EXCEPT !.allowed_ip_list =
        IF "allowed_ip_list" \in DOMAIN d THEN Range(d.allowed_ip_list) ELSE {}]

\* Users.load on the data Users.save wrote.
Users_load(data) ==
    LET ds == [i \in 1..Len(data.users) |-> user_from_dict(data.users[i], data)]
    IN  IF \E i \in 1..Len(ds) : User_from_kwargs_raises(ds[i])
        THEN [raised |-> TRUE, users |-> <<>>, defaults |-> NoDefaults]
        ELSE [raised |-> FALSE,
              users |-> [i \in 1..Len(ds) |-> User_from_kwargs(ds[i])],
              defaults |->
                  [Users_defaults(
                       IF "active" \in DOMAIN data.defaults
                       THEN data.defaults.active ELSE None,
                       IF "authentication_provider_name" \in DOMAIN data.defaults
                       THEN data.defaults.authentication_provider_name ELSE None,
                       IF "locale_id" \in DOMAIN data.defaults
                       THEN data.defaults.locale_id ELSE None)
                   EXCEPT !.roles = Range(data.defaults.roles)]]

\* Role names and addresses, as strings.
Word == [Admin |-> <<65, 100>>, Audit |-> <<65, 117>>, Scan |-> <<83>>,
         ip1 |-> <<49, 48, 46, 49>>, ip2 |-> <<49, 48, 46, 50>>]

\* The users a Users collection may hold in memory.
HeldUsers ==
    {[User("alice", provider, email, locale_id, roles, active, None, phone_number, NoId)
      EXCEPT !.allowed_ip_list = allowed_ip_list] :
        provider \in {None, "s:Application", "s:LDAP"},
        email \in {None, "s:a@x"},
        locale_id \in {None, "i:1", "i:2"},
        roles \in {{}, {Word.Admin}, {Word.Scan, Word.Audit, Word.Admin}},
        active \in {None, "b:True", "b:False"},
        allowed_ip_list \in {{}, {Word.ip2, Word.ip1}},
        phone_number \in {None, "s:", "s:555"}}

HeldDefaults ==
    {[Users_defaults(default_active, provider, locale_id) EXCEPT !.roles = roles] :
        default_active \in {None, "b:True", "b:False"},
        provider \in {None, "s:Application"},
        locale_id \in {None, "i:1"},
        roles \in {{}, {Word.Admin}}}

InitUsers ==
    /\ diff_in \in [user : HeldUsers, defaults : HeldDefaults]
    /\ diff_out = <<>>
    /\ pc = "held"
    /\ files = [teams |-> <<>>, users |-> <<>>]
    /\ dir_teams = <<>>
    /\ dir_users = <<>>
    /\ dry_run = FALSE
    /\ cur_model = NoModel
    /\ new_model = NoModel
    /\ team_map = <<>>
    /\ todo = <<>>
    /\ calls = <<>>
    /\ run = 1
    /\ prev_calls = <<>>

\* user.to_dict(default_active=..., ..., default_roles=...)
UserToDict ==
    /\ pc = "held"
    /\ diff_out' =
        IF User_to_dict_raises(diff_in.user, diff_in.defaults)
        THEN [raised |-> TRUE, d |-> <<>>]
        ELSE [raised |-> FALSE, d |-> User_to_dict(diff_in.user, diff_in.defaults)]
    /\ pc' = "dict"
    /\ UNCHANGED <<dir_teams, dir_users, files, dry_run, cur_model, new_model,
                   team_map, todo, calls, run, prev_calls, diff_in>>

\* Users([user], defaults).save(dir) followed by Users.load(dir / 'users.yml')
SaveThenLoad ==
    /\ pc = "held"
    /\ diff_out' =
        IF User_to_dict_raises(diff_in.user, diff_in.defaults)
        THEN [raised |-> TRUE, users |-> <<>>, defaults |-> NoDefaults]
        ELSE Users_load(Users_to_dict(<<diff_in.user>>, diff_in.defaults))
    /\ pc' = "reloaded"
    /\ UNCHANGED <<dir_teams, dir_users, files, dry_run, cur_model, new_model,
                   team_map, todo, calls, run, prev_calls, diff_in>>

NextUsers == UserToDict \/ SaveThenLoad

SpecUsers == InitUsers /\ [][NextUsers]_vars

-----------------------------------------------------------------------------
(* update() on team files and directory teams whose name may not match *)

\* The lists that differ from teams in at most one team's name, which
\* becomes r or a.
Renamings(teams) ==
    {teams} \cup {[teams EXCEPT ![i].name = Last(split(n))] :
                     i \in 1..Len(teams), n \in {N_r, N_ra}}

InitTeams ==
    /\ \E sc \in Scenarios :
        /\ dir_users = DirUsers(sc.dt, sc.du)
        /\ \/ /\ dir_teams \in Renamings(DirTeams(sc.dt))
              /\ files = Files(sc.ft, sc.fu)
           \/ /\ dir_teams = DirTeams(sc.dt)
              /\ \E teams \in Renamings(Files(sc.ft, sc.fu).teams) :
                    files = [Files(sc.ft, sc.fu) EXCEPT !.teams = teams]
    /\ dry_run = FALSE
    /\ cur_model = NoModel
    /\ new_model = NoModel
    /\ team_map = <<>>
    /\ todo = <<>>
    /\ calls = <<>>
    /\ pc = "retrieve"
    /\ run = 1
    /\ prev_calls = <<>>
    /\ diff_in = <<>>
    /\ diff_out = <<>>

SpecTeams == InitTeams /\ [][Next]_vars

-----------------------------------------------------------------------------
(* apply_changes on a loaded model, validated or not *)

\* The files, or the files with a role no resolver knows added to one user.
WithUnknownRole(f) ==
    {f} \cup {[f EXCEPT !.users[i].roles = @ \cup {"Ghost"}] : i \in 1..Len(f.users)}

InitApply ==
    /\ \E sc \in Scenarios :
        /\ dir_teams = DirTeams(sc.dt)
        /\ dir_users = DirUsers(sc.dt, sc.du)
        /\ files \in WithUnknownRole(Files(sc.ft, sc.fu))
    /\ dry_run \in BOOLEAN
    /\ cur_model = NoModel
    /\ new_model = NoModel
    /\ team_map = <<>>
    /\ todo = <<>>
    /\ calls = <<>>
    /\ pc = "retrieve"
    /\ run = 1
    /\ prev_calls = <<>>
    /\ diff_in = <<>>
    /\ diff_out = <<>>

\* A caller of apply_changes that loads the model and builds its indexes with
\* Model.validate, as update_common of the tests does, and goes on whatever
\* the list of errors.
LoadUnvalidated ==
    /\ pc = "validate"
    /\ ~Model_load_raises(files)
    /\ LET v == validate(Model_load(files), NoDefaults, UpdateOptions, <<>>)
       IN  /\ ~v.raised
           /\ new_model' = v.model
    /\ pc' = "update_team_ids"
    /\ UNCHANGED <<dir_teams, dir_users, files, dry_run, cur_model, team_map, todo,
                   calls, run, prev_calls, diff_in, diff_out>>

NextApply == LoadUnvalidated \/ Next

SpecApply == InitApply /\ [][NextApply]_vars

-----------------------------------------------------------------------------
(* Properties *)

\* The positions of the run at which cur_model and new_model are both built.
Applying ==
    pc \in {"apply_changes", "add_teams", "add_users", "update_users",
            "delete_users", "delete_teams", "done", "failed"}

CallsOf(ops) == SelectSeq(calls, LAMBDA c : c.op \in ops)

FileTeamNames == {files.teams[i].full_name : i \in 1..Len(files.teams)}

FileUserKeys == {UserKey(files.users[i]) : i \in 1..Len(files.users)}

FileUser(key) == files.users[CHOOSE i \in 1..Len(files.users) : UserKey(files.users[i]) = key]

\* The full names of the teams of the files that list the user.
FileTeamsOf(key) ==
    {files.teams[i].full_name :
        i \in {j \in 1..Len(files.teams) : key \in Range(files.teams[j].users)}}

DirTeamNames == {dir_teams[i].full_name : i \in 1..Len(dir_teams)}

DirUserKeys == {UserKey(retrieved_user(dir_users[i])) : i \in 1..Len(dir_users)}

DirUser(key) ==
    dir_users[CHOOSE i \in 1..Len(dir_users) : UserKey(retrieved_user(dir_users[i])) = key]

\* The full names of the directory's teams whose identifiers the user holds.
DirTeamsOf(key) ==
    {dir_teams[i].full_name :
        i \in {j \in 1..Len(dir_teams) : dir_teams[j].id \in DirUser(key).team_ids}}

ComparedAttrs == {"active", "allowed_ip_list", "email", "locale_id", "phone_number"}

\* Two values of an attribute are the same, or both empty and not boolean.
FalsyEquivalent(x, y, name) ==
    \/ x = y
    \/ name # "active" /\ x \in Falsy /\ y \in Falsy

\* The directory holds the teams and users of the files; the users' team
\* identifiers name the teams that list them.
DirHoldsTeamsAndUsers ==
    /\ DirTeamNames = FileTeamNames
    /\ DirUserKeys = FileUserKeys
    /\ \A key \in FileUserKeys :
        /\ DirTeamsOf(key) = FileTeamsOf(key)
        /\ Cardinality(DirUser(key).team_ids) = Cardinality(FileTeamsOf(key))
        /\ retrieved_user(DirUser(key)).roles = FileUser(key).roles

\* C1 as stated. Convergence: when apply_changes (not a dry run) has run to
\* completion, the directory holds exactly the desired state: the desired
\* team full names, the desired user identities, and for every user the desired
\* team-id set and attribute values.
C1_ConvergesExactly ==
    (pc = "done" /\ ~dry_run) =>
        /\ DirHoldsTeamsAndUsers
        /\ \A key \in FileUserKeys : \A a \in ComparedAttrs :
              retrieved_user(DirUser(key))[a] = FileUser(key)[a]

\* C1 as amended. Convergence up to falsy-equivalence: when apply_changes (not
\* a dry run) has run to completion, the directory holds the desired teams,
\* identities, team-id sets and roles, and every attribute of every user equals
\* the desired value or, when it is not boolean, both are empty (None, '', 0 or
\* an empty container).
C1_ConvergesUpToFalsy ==
    (pc = "done" /\ ~dry_run) =>
        /\ DirHoldsTeamsAndUsers
        /\ \A key \in FileUserKeys : \A a \in ComparedAttrs :
              FalsyEquivalent(retrieved_user(DirUser(key))[a], FileUser(key)[a], a)

\* A completed first run that created a team, created a user, updated a user
\* and deleted a team or a user.
C1_Witness ==
    /\ pc = "done" /\ ~dry_run /\ run = 1
    /\ Len(CallsOf({"create_team"})) > 0
    /\ Len(CallsOf({"update_user"})) > 0
    /\ Len(CallsOf({"delete_team", "delete_user"})) > 0

\* The model retrieved at the start of the run matches the files: same teams,
\* same identities, same memberships and roles, attributes falsy-equivalent.
CurMatchesFiles ==
    /\ DOMAIN cur_model.team_map = FileTeamNames
    /\ DOMAIN cur_model.user_map = FileUserKeys
    /\ \A key \in FileUserKeys :
        /\ {cur_model.teams[i].full_name :
               i \in {j \in 1..Len(cur_model.teams) :
                         key \in Range(cur_model.teams[j].users)}} = FileTeamsOf(key)
        /\ cur_model.user_map[key].roles = FileUser(key).roles
        /\ \A a \in ComparedAttrs :
              FalsyEquivalent(cur_model.user_map[key][a], FileUser(key)[a], a)

\* C2. Idempotence: when the directory matches the desired model at the start
\* of a run (as it does in every run that follows a completed one), retrieve +
\* apply_changes with the same desired model makes no create-team, delete-team,
\* create-user, delete-user or update-user call.
C2_Idempotent ==
    (pc # "retrieve" /\ (run > 1 \/ (Applying /\ CurMatchesFiles))) => calls = <<>>

\* A second run completed after a first run that made calls.
C2_Witness == pc = "done" /\ run = 2 /\ prev_calls # <<>> /\ calls = <<>>

\* The positions in the log of the calls of some operations.
Idx(ops) == {i \in 1..Len(calls) : calls[i].op \in ops}

CurTeamNames == DOMAIN cur_model.team_map

CurUserKeys == DOMAIN cur_model.user_map

TeamsToCreate == FileTeamNames \ CurTeamNames

TeamsToDelete == CurTeamNames \ FileTeamNames

AfterAddTeams ==
    pc \in {"add_users", "update_users", "delete_users", "delete_teams", "done"}

\* C3. Team creation order: add_teams creates the teams of (desired full
\* names minus current full names), each once and in ascending lexical order
\* of full_name; when a parent and its child are both to be created the
\* parent's creation call comes strictly before the child's, and the child's
\* call carries the identifier read back after the parent's creation.
C3_TeamCreationOrder ==
    Applying =>
        /\ \A i \in Idx({"create_team"}) :
            /\ calls[i].full_name \in TeamsToCreate
            /\ \A n \in TeamsToCreate :
                  \/ \E j \in Idx({"create_team"}) : j <= i /\ calls[j].full_name = n
                  \/ StrLess(calls[i].full_name, n)
            /\ get_team_parent_name(calls[i].full_name) \in TeamsToCreate =>
                  \E j \in Idx({"create_team"}) :
                      /\ j < i
                      /\ calls[j].full_name = get_team_parent_name(calls[i].full_name)
                      /\ calls[j].team_id # NoId
                      /\ calls[i].team_parent_id = calls[j].team_id
                      /\ \E t \in Range(dir_teams) :
                            t.id = calls[j].team_id /\ t.full_name = calls[j].full_name
        /\ \A i, j \in Idx({"create_team"}) :
              i < j => StrLess(calls[i].full_name, calls[j].full_name)
        /\ AfterAddTeams =>
              {calls[i].full_name : i \in Idx({"create_team"})} = TeamsToCreate

\* A completed run that created a parent and then its child.
C3_Witness ==
    /\ pc = "done"
    /\ \E i, j \in Idx({"create_team"}) :
          /\ i < j
          /\ calls[i].full_name = get_team_parent_name(calls[j].full_name)
          /\ calls[j].team_parent_id = calls[i].team_id

\* C4. Team deletion order: delete_teams makes exactly one deletion call for
\* each team of (current full names minus desired full names), with the
\* current team's team_id, in descending lexical order of full_name; when a
\* parent and its child are both to be deleted the child's deletion call
\* comes strictly before the parent's.
C4_TeamDeletionOrder ==
    Applying =>
        /\ \A i \in Idx({"delete_team"}) :
            /\ calls[i].full_name \in TeamsToDelete
            /\ calls[i].team_id = cur_model.team_map[calls[i].full_name].team_id
            /\ calls[i].team_id # NoId
            /\ \A n \in TeamsToDelete :
                  \/ \E j \in Idx({"delete_team"}) : j <= i /\ calls[j].full_name = n
                  \/ StrLess(n, calls[i].full_name)
            /\ \A n \in TeamsToDelete :
                  get_team_parent_name(n) = calls[i].full_name =>
                      \E j \in Idx({"delete_team"}) : j < i /\ calls[j].full_name = n
        /\ \A i, j \in Idx({"delete_team"}) :
              i < j => StrLess(calls[j].full_name, calls[i].full_name)
        /\ pc = "done" =>
              {calls[i].full_name : i \in Idx({"delete_team"})} = TeamsToDelete

\* A completed run that deleted a child and then its parent.
C4_Witness ==
    /\ pc = "done"
    /\ \E i, j \in Idx({"delete_team"}) :
          /\ i < j
          /\ calls[j].full_name = get_team_parent_name(calls[i].full_name)

FileTeam(full_name) ==
    files.teams[CHOOSE i \in 1..Len(files.teams) : files.teams[i].full_name = full_name]

\* update_team_ids has run and no create or delete set has been computed from
\* its result, or add_teams has computed its set and made no call yet.
TeamIdsCarried ==
    \/ pc = "apply_changes"
    \/ pc = "add_teams" /\ calls = <<>>

\* C5. Team identifier carry-over: before apply_changes computes a create or
\* delete set, every desired team whose full_name exists in the current model
\* has the current team's team_id, the teams of the desired model alone keep
\* the team_id they were loaded with, and desired.user_team_ids_map gives each
\* listed user the ids of the teams that list it; and no create-team call is
\* ever made for a full_name of the current model.
C5_TeamIdCarryOver ==
    /\ TeamIdsCarried =>
        /\ \A i \in 1..Len(new_model.teams) :
            LET team == new_model.teams[i]
            IN  /\ team.full_name \in CurTeamNames =>
                      /\ team.team_id = cur_model.team_map[team.full_name].team_id
                      /\ team.team_id # NoId
                /\ team.full_name \notin CurTeamNames =>
                      team.team_id = FileTeam(team.full_name).team_id
                /\ new_model.team_map[team.full_name] = team
        /\ DOMAIN new_model.user_team_ids_map =
              UNION {Range(new_model.teams[i].users) : i \in 1..Len(new_model.teams)}
        /\ \A key \in DOMAIN new_model.user_team_ids_map :
              new_model.user_team_ids_map[key] =
                  {new_model.team_map[n].team_id : n \in FileTeamsOf(key)}
    /\ Applying =>
          \A i \in Idx({"create_team"}) : calls[i].full_name \notin CurTeamNames

\* add_teams is about to start with a team of both models, a team of the
\* desired model alone, and a user listed by a team of both models.
C5_Witness ==
    /\ pc = "add_teams" /\ calls = <<>> /\ todo # <<>>
    /\ \E i \in 1..Len(new_model.teams) :
          /\ new_model.teams[i].full_name \in CurTeamNames
          /\ new_model.teams[i].team_id # NoId
          /\ new_model.teams[i].users # <<>>

\* The team ids a create-user or update-user call sends.
SentTeamIds(call) ==
    IF call.op = "create_user" THEN call.team_ids ELSE call.updates.team_ids

\* C6. Teams before users: every create-team call precedes every create-user
\* and update-user call, and the team-id set sent for a created or updated
\* user contains, for each newly created team that lists the user in the
\* desired model, the id read back after that team's creation; a created user
\* is sent with the ids of its roles.
C6_TeamsBeforeUsers ==
    Applying =>
        /\ \A i \in Idx({"create_team"}) : \A k \in Idx({"create_user", "update_user"}) :
              i < k
        /\ \A k \in Idx({"create_user", "update_user"}) :
              \A i \in Idx({"create_team"}) :
                  calls[i].full_name \in FileTeamsOf(calls[k].userkey) =>
                      /\ calls[i].team_id # NoId
                      /\ calls[i].team_id \in SentTeamIds(calls[k])
        /\ \A k \in Idx({"create_user"}) :
              calls[k].role_ids =
                  {r.id : r \in {x \in all_roles :
                                    x.name \in FileUser(calls[k].userkey).roles}}

\* A team was created and then a user of that team, with the team's new id.
C6_Witness ==
    \E i \in Idx({"create_team"}) : \E k \in Idx({"create_user"}) :
        /\ i < k
        /\ calls[i].full_name \in FileTeamsOf(calls[k].userkey)
        /\ calls[i].team_id \in calls[k].team_ids
        /\ calls[k].role_ids # {}

\* C7. Users before team deletion: every create-user, update-user and
\* delete-user call precedes every delete-team call; when a team is deleted
\* while one of its members stays, an update call for that member whose
\* team-id set lacks the team's id comes before the team's deletion call.
C7_UsersBeforeTeamDeletion ==
    Applying =>
        /\ \A k \in Idx({"create_user", "update_user", "delete_user"}) :
              \A j \in Idx({"delete_team"}) : k < j
        /\ \A j \in Idx({"delete_team"}) :
              \A key \in Range(cur_model.team_map[calls[j].full_name].users) :
                  key \in FileUserKeys =>
                      \E k \in Idx({"update_user"}) :
                          /\ k < j
                          /\ calls[k].userkey = key
                          /\ calls[j].team_id \notin calls[k].updates.team_ids

\* A team was deleted after the update of a member that stays.
C7_Witness ==
    \E j \in Idx({"delete_team"}) : \E k \in Idx({"update_user"}) :
        /\ k < j
        /\ calls[k].userkey \in Range(cur_model.team_map[calls[j].full_name].users)
        /\ calls[j].team_id \notin calls[k].updates.team_ids

\* The inputs and results of the comparison.
SameIdentity ==
    /\ diff_in.self.username = diff_in.other.username
    /\ diff_in.self.authentication_provider_name =
          diff_in.other.authentication_provider_name

\* The compared attributes whose values are not equal up to falsy-equivalence.
ChangedFields ==
    {a \in ComparedAttrs : ~FalsyEquivalent(diff_in.self[a], diff_in.other[a], a)}

NothingChanged ==
    /\ ChangedFields = {}
    /\ diff_in.self.roles = diff_in.other.roles
    /\ diff_in.old_team_ids = diff_in.new_team_ids

\* C8. Falsy-equivalence and no-op suppression: for one identity, when every
\* compared attribute is equal on both sides or, not being boolean, empty on
\* both sides, and the role sets and the team-id sets are equal, get_updates
\* returns no update and update_users makes no update call; active is
\* compared by strict value, so None against False is a change and is sent.
C8_FalsyEquivalence ==
    (pc = "returned" /\ SameIdentity) =>
        /\ NothingChanged =>
              /\ diff_out.updates = [raised |-> FALSE, updates |-> <<>>]
              /\ diff_out.turn = [raised |-> FALSE, requests |-> <<>>]
        /\ diff_in.self.active # diff_in.other.active =>
              /\ ~diff_out.updates.raised
              /\ Len(diff_out.updates.updates) = 1
              /\ diff_out.updates.updates[1].active = diff_in.other.active
              /\ Len(diff_out.turn.requests) = 1

\* No update for a user whose phone number is None on one side and '' on the
\* other.
C8_Witness ==
    /\ pc = "returned" /\ SameIdentity /\ NothingChanged
    /\ diff_in.self.phone_number # diff_in.other.phone_number
    /\ diff_out.turn.requests = <<>>

\* An update for a user whose active flag is None and is to be False.
C8_WitnessActive ==
    /\ pc = "returned" /\ SameIdentity
    /\ diff_in.self.active = None /\ diff_in.other.active = "b:False"
    /\ ChangedFields = {"active"}
    /\ Len(diff_out.turn.requests) = 1

\* The fields of a request that differ between the two sides.
ChangedKeys ==
    ChangedFields
    \cup (IF diff_in.self.roles # diff_in.other.roles THEN {"role_ids"} ELSE {})
    \cup (IF diff_in.old_team_ids # diff_in.new_team_ids THEN {"team_ids"} ELSE {})

RoleIds(roles) == {r.id : r \in {x \in all_roles : x.name \in roles}}

\* A value as the call sends it: the allowed_ip_list is sent as a list.
Sent(a, value) == IF a = "allowed_ip_list" /\ value = "set()" THEN "l:" ELSE value

ProviderChanges ==
    {c \in (CurUserKeys \ FileUserKeys) \X (FileUserKeys \ CurUserKeys) :
        /\ c[1].username = c[2].username
        /\ c[1].authentication_provider_name # c[2].authentication_provider_name}

\* C10 as stated. Identity immutability: when a username has one provider in
\* the current model and another in the desired model, apply_changes fails
\* and makes no create, update or delete call for that user.
C10_ProviderChangeFails ==
    (Applying /\ ProviderChanges # {}) =>
        /\ pc # "done"
        /\ \A c \in ProviderChanges :
              \A i \in Idx({"create_user", "update_user", "delete_user"}) :
                  calls[i].userkey.username # c[1].username

\* C10 as amended. Identity is the pair (username, provider): get_updates
\* raises for two records of different providers, update_users only compares
\* the records of one identity, and when a username has one provider in the
\* current model and another in the desired model apply_changes makes no
\* update call for it: a run that completes has created the desired identity
\* and deleted the current one by its user_id.
C10_ProviderChangeRecreates ==
    Applying =>
        /\ \A i \in Idx({"update_user"}) :
              /\ calls[i].userkey \in CurUserKeys \cap FileUserKeys
              /\ calls[i].updates.user_id = cur_model.user_map[calls[i].userkey].user_id
        /\ \A i \in Idx({"create_user"}) : calls[i].userkey \in FileUserKeys \ CurUserKeys
        /\ \A i \in Idx({"delete_user"}) : calls[i].userkey \in CurUserKeys \ FileUserKeys
        /\ \A c \in ProviderChanges :
              /\ get_updates(cur_model.user_map[c[1]], FileUser(c[2]), {}, {}).raised
              /\ \A i \in Idx({"update_user"}) : calls[i].userkey.username # c[1].username
              /\ pc = "done" =>
                    /\ Cardinality({i \in Idx({"create_user"}) : calls[i].userkey = c[2]}) = 1
                    /\ Cardinality({i \in Idx({"delete_user"}) :
                           /\ calls[i].userkey = c[1]
                           /\ calls[i].user_id = cur_model.user_map[c[1]].user_id}) = 1
                    /\ c[2] \in DirUserKeys
                    /\ c[1] \notin DirUserKeys

\* A completed run over a change of provider.
C10_Witness ==
    /\ pc = "done"
    /\ \E c \in ProviderChanges :
          /\ \E i \in Idx({"create_user"}) : calls[i].userkey = c[2]
          /\ \E i \in Idx({"delete_user"}) : calls[i].userkey = c[1]

\* add_teams has returned: every team to create has its call, and the run
\* is past the loop of add_teams.
AddTeamsReturned ==
    /\ pc \in {"add_users", "update_users", "delete_users", "delete_teams",
               "done", "failed"}
    /\ Applying
    /\ {calls[i].full_name : i \in Idx({"create_team"})} = TeamsToCreate
    /\ \A i \in Idx({"create_team"}) : calls[i].team_id # NoId

UsersToCreate == FileUserKeys \ CurUserKeys

UsersToDelete == CurUserKeys \ FileUserKeys

\* add_users is over: it returned, or the run stopped in it or after it.
AddUsersOver ==
    /\ AddTeamsReturned
    /\ pc \in {"update_users", "delete_users", "delete_teams", "done", "failed"}

\* C11. User creation set: whatever the number of identities of (desired
\* identities minus current identities), two or more included, add_users
\* makes exactly one creation call for each of them and none for another
\* identity; the call carries the team ids desired.user_team_ids_map gives
\* the identity and the ids of the user's roles.
C11_OneCreationPerNewUser ==
    AddUsersOver =>
        /\ \A key \in UsersToCreate :
              Cardinality({i \in Idx({"create_user"}) : calls[i].userkey = key}) = 1
        /\ \A i \in Idx({"create_user"}) :
              /\ calls[i].userkey \in UsersToCreate
              /\ calls[i].team_ids = new_model.user_team_ids_map[calls[i].userkey]
              /\ calls[i].role_ids = RoleIds(FileUser(calls[i].userkey).roles)

\* add_users stopped with two users to create and no creation call made.
C11_Witness ==
    /\ pc = "failed"
    /\ AddTeamsReturned
    /\ Cardinality(UsersToCreate) >= 2
    /\ Idx({"create_user"}) = {}

\* update_users has returned: add_users made its calls and every user of
\* both models has its team ids in both models.
UpdateUsersReturned ==
    /\ AddUsersOver
    /\ {calls[i].userkey : i \in Idx({"create_user"})} = UsersToCreate
    /\ \A key \in CurUserKeys \cap FileUserKeys :
          /\ key \in DOMAIN cur_model.user_team_ids_map
          /\ key \in DOMAIN new_model.user_team_ids_map

DeleteUsersOver ==
    /\ UpdateUsersReturned
    /\ pc \in {"delete_teams", "done", "failed"}

\* C12. User deletion set: whatever the number of identities of (current
\* identities minus desired identities), two or more included, delete_users
\* makes exactly one deletion call for each of them, with the user_id of the
\* current model's record, and none for an identity of the desired model.
C12_OneDeletionPerGoneUser ==
    DeleteUsersOver =>
        /\ \A key \in UsersToDelete :
              Cardinality({i \in Idx({"delete_user"}) : calls[i].userkey = key}) = 1
        /\ \A i \in Idx({"delete_user"}) :
              /\ calls[i].userkey \in UsersToDelete
              /\ calls[i].user_id = cur_model.user_map[calls[i].userkey].user_id

\* delete_users stopped with two users to delete and no deletion call made.
C12_Witness ==
    /\ pc = "failed"
    /\ UpdateUsersReturned
    /\ Cardinality(UsersToDelete) >= 2
    /\ Idx({"delete_user"}) = {}

\* The operations of a log, in order.
Ops(log) == [i \in 1..Len(log) |-> log[i].op]

TeamCalls(log) == SelectSeq(log, LAMBDA c : c.op \in {"create_team", "delete_team"})

UserCalls(log, ops) == SelectSeq(log, LAMBDA c : c.op \in ops)

\* Two logs hold the same operations on the same teams and users in the same
\* order; the update calls of update_users, which iterates a set, are
\* compared as a set.
SameDecisions(a, b) ==
    /\ Ops(a) = Ops(b)
    /\ [i \in 1..Len(TeamCalls(a)) |-> TeamCalls(a)[i].full_name] =
          [i \in 1..Len(TeamCalls(b)) |-> TeamCalls(b)[i].full_name]
    /\ [i \in 1..Len(UserCalls(a, {"create_user", "delete_user"})) |->
              UserCalls(a, {"create_user", "delete_user"})[i].userkey] =
          [i \in 1..Len(UserCalls(b, {"create_user", "delete_user"})) |->
              UserCalls(b, {"create_user", "delete_user"})[i].userkey]
    /\ {c.userkey : c \in Range(UserCalls(a, {"update_user"}))} =
          {c.userkey : c \in Range(UserCalls(b, {"update_user"}))}

DryRunReports ==
    /\ dry_run => \A i \in 1..Len(calls) : ~calls[i].sent
    /\ (~dry_run /\ pc \in {"done", "failed"}) => SameDecisions(prev_calls, calls)

AppliedStays ==
    (Applying \/ pc = "aborted") =>
        /\ \A i \in Idx({"create_team"}) :
              \E t \in Range(dir_teams) :
                  t.id = calls[i].team_id /\ t.full_name = calls[i].full_name
        /\ \A i \in Idx({"delete_team"}) : calls[i].full_name \notin DirTeamNames
        /\ \A i \in Idx({"create_user"}) :
              /\ calls[i].userkey \in DirUserKeys
              /\ DirUser(calls[i].userkey).team_ids = calls[i].team_ids
        /\ \A i \in Idx({"update_user"}) :
              /\ calls[i].userkey \in DirUserKeys
              /\ DirUser(calls[i].userkey).team_ids = calls[i].updates.team_ids
              /\ DirUser(calls[i].userkey).email = calls[i].updates.email
        /\ \A i \in Idx({"delete_user"}) : calls[i].userkey \notin DirUserKeys

\* The directory holds the desired state, attributes up to falsy-equivalence.
Converged ==
    /\ DirHoldsTeamsAndUsers
    /\ \A key \in FileUserKeys : \A a \in ComparedAttrs :
          FalsyEquivalent(retrieved_user(DirUser(key))[a], FileUser(key)[a], a)

\* A run that follows a run ended by a remote call does not fail, and once it
\* has completed the directory holds the desired state.
LaterRunCompletes ==
    run > 1 =>
        /\ pc # "failed"
        /\ pc = "done" => Converged

\* C14. Abort without rollback: when a remote call raises during
\* apply_changes the run makes no further call and retries none, what it had
\* applied stays in the directory, and a later run that retrieves the
\* directory again completes the remaining work and reaches the desired
\* state.
C14_AbortThenResume ==
    /\ [](AppliedStays /\ LaterRunCompletes)
    /\ [][pc = "aborted" =>
            (pc' = "retrieve" /\ dir_teams' = dir_teams /\ dir_users' = dir_users)]_vars

\* A run after an aborted one has stopped in delete_users or add_users, which
\* cannot sort two users.
C14_Witness ==
    /\ run > 1
    /\ pc = "failed"
    /\ \/ AddTeamsReturned /\ Cardinality(UsersToCreate) >= 2
       \/ UpdateUsersReturned /\ Cardinality(UsersToDelete) >= 2

-----------------------------------------------------------------------------
(* Validation: what the files hold, and what validate recorded *)

\* The positions of the errors of one kind in the list validate returned.
ErrorsOf(kind) ==
    {i \in 1..Len(diff_out.errors) : diff_out.errors[i].error = kind}

ListedUserIdx == 1..Len(files.users)

ListedTeamIdx == 1..Len(files.teams)

\* Teams (users) beyond the first of their full name (identity).
DuplicateTeamsListed ==
    Len(files.teams) - Cardinality({files.teams[i].full_name : i \in ListedTeamIdx})

DuplicateUsersListed ==
    Len(files.users) - Cardinality({UserKey(files.users[i]) : i \in ListedUserIdx})

\* The mandatory attributes, and the pairs of a listed user and a mandatory
\* attribute it lacks.
MandatoryAttrs == {attrs[i].name : i \in {j \in 1..Len(attrs) : attrs[j].mandatory}}

MissingListed ==
    {<<i, a>> \in ListedUserIdx \X MandatoryAttrs : files.users[i][a] = None}

\* The pairs of a listed user and a role of it no role of the resolver has.
UnknownRoles(i) == {r \in files.users[i].roles : \A known \in all_roles : known.name # r}

UnknownRolesListed == UNION {{<<i, r>> : r \in UnknownRoles(i)} : i \in ListedUserIdx}

\* The listed users whose provider name no provider of the resolver has.
UnknownProviderListed ==
    {i \in ListedUserIdx :
        \A known \in authentication_providers :
            known.name # files.users[i].authentication_provider_name}

\* The listed users no team refers to.
Referenced(key) == \E i \in ListedTeamIdx : key \in Range(files.teams[i].users)

UnreferencedListed == {i \in ListedUserIdx : ~Referenced(UserKey(files.users[i]))}

\* The membership references that name no listed user.
Listed(key) == \E i \in ListedUserIdx : UserKey(files.users[i]) = key

UnresolvedListed ==
    UNION {{<<i, j>> : j \in {k \in 1..Len(files.teams[i].users) :
                                 ~Listed(files.teams[i].users[k])}} :
           i \in ListedTeamIdx}

LookupEnabled == diff_in.options.retrieve_user_entries = "b:True"

\* The independent problems of the files that no lookup can resolve.
ProblemsListed ==
    DuplicateTeamsListed + DuplicateUsersListed + Cardinality(MissingListed)
    + Cardinality(UnknownRolesListed) + Cardinality(UnknownProviderListed)
    + Cardinality(UnreferencedListed)
    + (IF LookupEnabled THEN 0 ELSE Cardinality(UnresolvedListed))

\* C15: Model.validate never raises, whatever the files hold and whether the
\* lookup is enabled or not; it returns a list that has a record for every
\* problem, so k independent problems give at least k records.
C15_ValidateCollects ==
    pc = "validated" =>
        /\ ~diff_out.raised
        /\ Len(diff_out.errors) >= ProblemsListed

\* validate returned several records for files with several problems, the
\* lookup being enabled.
C15_Witness ==
    /\ pc = "validated"
    /\ LookupEnabled
    /\ ~diff_out.raised
    /\ ProblemsListed >= 3
    /\ UnresolvedListed # {}
    /\ Len(diff_out.errors) >= ProblemsListed

\* The part of C15 that holds: validate returns its list whenever no
\* reference is unresolved or the lookup is disabled.
C15_ReturnsWithoutLookup ==
    (pc = "validated" /\ (UnresolvedListed = {} \/ diff_in.options.retrieve_user_entries = "b:False")) =>
        /\ ~diff_out.raised
        /\ Len(diff_out.errors) >= ProblemsListed

\* The teams (users) of the files that have a full name (an identity).
TeamsNamed(full_name) == {i \in ListedTeamIdx : files.teams[i].full_name = full_name}

UsersOf(key) == {i \in ListedUserIdx : UserKey(files.users[i]) = key}

DuplicateTeamErrors(full_name) ==
    {i \in ErrorsOf("DuplicateTeam") : diff_out.errors[i].team_full_name = full_name}

DuplicateUserErrors(key) ==
    {i \in ErrorsOf("DuplicateUser") : diff_out.errors[i].user_reference = key}

\* The indexes have been built: by Model(..., build_maps=True), or by a
\* validate that returned.
Built == pc = "built" \/ (pc = "validated" /\ ~diff_out.raised)

\* C16: building the indexes records exactly n - 1 DuplicateTeam errors for a
\* full name that n teams share and exactly n - 1 DuplicateUser errors for an
\* identity that n users share, hence none where names and identities are
\* unique; Model(..., build_maps=True) raises exactly when an error was
\* recorded.
C16_DuplicateDetection ==
    Built =>
        /\ \A i \in ListedTeamIdx :
              Cardinality(DuplicateTeamErrors(files.teams[i].full_name))
                  = Cardinality(TeamsNamed(files.teams[i].full_name)) - 1
        /\ Cardinality(ErrorsOf("DuplicateTeam")) = DuplicateTeamsListed
        /\ \A i \in ListedUserIdx :
              Cardinality(DuplicateUserErrors(UserKey(files.users[i])))
                  = Cardinality(UsersOf(UserKey(files.users[i]))) - 1
        /\ Cardinality(ErrorsOf("DuplicateUser")) = DuplicateUsersListed
        /\ (pc = "built" =>
              (diff_out.raised <=>
                  ErrorsOf("DuplicateTeam") \cup ErrorsOf("DuplicateUser") # {}))

\* Three teams share a full name and three users an identity, next to a user
\* whose identity is unique, and the constructor raised.
C16_Witness ==
    /\ pc = "built"
    /\ \E i \in ListedTeamIdx : Cardinality(TeamsNamed(files.teams[i].full_name)) = 3
    /\ \E i \in ListedTeamIdx : Cardinality(TeamsNamed(files.teams[i].full_name)) = 1
    /\ \E i \in ListedUserIdx : Cardinality(UsersOf(UserKey(files.users[i]))) = 3
    /\ Cardinality(ErrorsOf("DuplicateTeam")) = 2
    /\ Cardinality(ErrorsOf("DuplicateUser")) = 2
    /\ diff_out.raised

\* Unique names and identities: nothing recorded, the constructor returns.
C16_WitnessUnique ==
    /\ pc = "built"
    /\ Len(files.teams) = 2
    /\ Len(files.users) = 3
    /\ diff_out.errors = <<>>
    /\ ~diff_out.raised

\* validate returned its list.
Returned == pc = "validated" /\ ~diff_out.raised

MissingPropertyErrors(username, property) ==
    {i \in ErrorsOf("MissingUserProperty") :
        /\ diff_out.errors[i].username = username
        /\ diff_out.errors[i].property = property}

\* C17: for every listed user and every mandatory attribute, validate records
\* exactly one MissingUserProperty naming the user and the attribute when the
\* user lacks the attribute (it is None once the defaults are applied), and
\* none when the user has it.  The errors name the user by username, so they
\* are counted per username.
C17_MandatoryAttributes ==
    Returned =>
        /\ \A i \in ListedUserIdx : \A a \in MandatoryAttrs :
              Cardinality(MissingPropertyErrors(files.users[i].username, a))
                  = Cardinality({k \in ListedUserIdx :
                                    /\ files.users[k].username = files.users[i].username
                                    /\ files.users[k][a] = None})
        /\ Cardinality(ErrorsOf("MissingUserProperty")) = Cardinality(MissingListed)

\* A user that lacks three mandatory attributes and has the others, next to a
\* user that has them all, a false active included.
C17_Witness ==
    /\ Returned
    /\ \E i \in ListedUserIdx :
          /\ Cardinality({a \in MandatoryAttrs : files.users[i][a] = None}) = 3
          /\ \A a \in MandatoryAttrs :
                Cardinality(MissingPropertyErrors(files.users[i].username, a))
                    = IF files.users[i][a] = None THEN 1 ELSE 0
    /\ \E i \in ListedUserIdx :
          /\ files.users[i].active = "b:False"
          /\ \A a \in MandatoryAttrs \ {"email"} :
                MissingPropertyErrors(files.users[i].username, a) = {}

InvalidRoleErrors(username, role) ==
    {i \in ErrorsOf("InvalidRole") :
        /\ diff_out.errors[i].username = username
        /\ diff_out.errors[i].role = role}

InvalidProviderErrors(username) ==
    {i \in ErrorsOf("InvalidAuthenticationProviderName") :
        diff_out.errors[i].username = username}

\* The files have one problem only: one role or one provider name that the
\* resolver does not know.
SingleUnknownName ==
    /\ Cardinality(UnknownRolesListed) + Cardinality(UnknownProviderListed) = 1
    /\ DuplicateTeamsListed + DuplicateUsersListed = 0
    /\ MissingListed = {}
    /\ UnreferencedListed = {}
    /\ UnresolvedListed = {}

\* C18: validate records exactly one InvalidRole for every role of a user that
\* the resolver does not know and exactly one
\* InvalidAuthenticationProviderName for a user whose provider name the
\* resolver does not know, and neither for known names; files that are valid
\* but for one unknown role or provider name give exactly one error.
C18_ResolverChecks ==
    Returned =>
        /\ \A i \in ListedUserIdx : \A r \in files.users[i].roles :
              Cardinality(InvalidRoleErrors(files.users[i].username, r))
                  = Cardinality({k \in ListedUserIdx :
                                    /\ files.users[k].username = files.users[i].username
                                    /\ r \in UnknownRoles(k)})
        /\ Cardinality(ErrorsOf("InvalidRole")) = Cardinality(UnknownRolesListed)
        /\ \A i \in ListedUserIdx :
              Cardinality(InvalidProviderErrors(files.users[i].username))
                  = Cardinality({k \in UnknownProviderListed :
                                    files.users[k].username = files.users[i].username})
        /\ Cardinality(ErrorsOf("InvalidAuthenticationProviderName"))
              = Cardinality(UnknownProviderListed)
        /\ (SingleUnknownName => Len(diff_out.errors) = 1)

\* A user with two unknown roles and no provider next to a user with a known
\* and an unknown role and a known provider.
C18_Witness ==
    /\ Returned
    /\ \E i \in ListedUserIdx :
          /\ Cardinality(UnknownRoles(i)) = 2
          /\ i \in UnknownProviderListed
    /\ \E i \in ListedUserIdx :
          /\ Cardinality(UnknownRoles(i)) = 1
          /\ Cardinality(files.users[i].roles) = 2
          /\ i \notin UnknownProviderListed
    /\ Cardinality(ErrorsOf("InvalidRole")) = 3
    /\ Cardinality(ErrorsOf("InvalidAuthenticationProviderName")) = 1

\* Valid files but for one unknown role: one error.
C18_WitnessSingleRole ==
    /\ Returned
    /\ SingleUnknownName
    /\ Cardinality(UnknownRolesListed) = 1
    /\ Len(diff_out.errors) = 1

\* Valid files but for one unknown provider name: one error.
C18_WitnessSingleProvider ==
    /\ Returned
    /\ SingleUnknownName
    /\ Cardinality(UnknownProviderListed) = 1
    /\ Len(diff_out.errors) = 1

NoTeamErrors(key) ==
    {i \in ErrorsOf("NoTeam") :
        UserReference(diff_out.errors[i].username,
                      diff_out.errors[i].authentication_provider_name) = key}

\* C19: validate records exactly one NoTeam for every listed user that no
\* team refers to, and none for a user that a team refers to.
C19_TeamMembershipRequired ==
    Returned =>
        /\ \A i \in ListedUserIdx :
              Cardinality(NoTeamErrors(UserKey(files.users[i])))
                  = IF Referenced(UserKey(files.users[i])) THEN 0
                    ELSE Cardinality(UsersOf(UserKey(files.users[i])))
        /\ Cardinality(ErrorsOf("NoTeam")) = Cardinality(UnreferencedListed)

\* Two teams; a user the second team alone refers to, after another
\* reference, and a user no team refers to.
C19_Witness ==
    /\ Returned
    /\ Len(files.teams) = 2
    /\ \E i \in ListedUserIdx :
          /\ UserKey(files.users[i]) \notin Range(files.teams[1].users)
          /\ UserKey(files.users[i]) \in Range(files.teams[2].users)
          /\ UserKey(files.users[i]) # files.teams[2].users[1]
          /\ NoTeamErrors(UserKey(files.users[i])) = {}
    /\ \E i \in UnreferencedListed :
          Cardinality(NoTeamErrors(UserKey(files.users[i]))) = 1

\* The membership references to an identity, in the order of the teams.
ReferencesTo(key) ==
    {<<i, j>> \in UnresolvedListed : files.teams[i].users[j] = key}

UnresolvedKeys == {files.teams[p[1]].users[p[2]] : p \in UnresolvedListed}

MissingUserErrors(key) ==
    {i \in ErrorsOf("MissingUser") : diff_out.errors[i].user_ref = key}

MissingLDAPUserErrors(key) ==
    {i \in ErrorsOf("MissingLDAPUser") : diff_out.errors[i].user_ref = key}

\* The users validate added to the model for an identity.
Inserted(key) ==
    {i \in (Len(files.users) + 1)..Len(diff_out.model.users) :
        UserKey(diff_out.model.users[i]) = key}

\* The directory has an entry whose username is the reference's.
HasEntry(key) ==
    /\ key.username \in DOMAIN diff_in.ldap_user_entries
    /\ \E k \in 1..Len(diff_in.ldap_user_entries[key.username]) :
          diff_in.ldap_user_entries[key.username][k].username = key.username

\* What C20 says of the references, for a validate that returned.
ReferencesSettled ==
    /\ \A key \in UnresolvedKeys :
          IF LookupEnabled
          THEN /\ MissingUserErrors(key) = {}
               /\ \/ /\ Cardinality(Inserted(key)) = 1
                     /\ HasEntry(key)
                     /\ MissingLDAPUserErrors(key) = {}
                  \/ /\ Inserted(key) = {}
                     /\ Cardinality(MissingLDAPUserErrors(key))
                           = Cardinality(ReferencesTo(key))
          ELSE /\ Cardinality(MissingUserErrors(key)) = Cardinality(ReferencesTo(key))
               /\ MissingLDAPUserErrors(key) = {}
               /\ Inserted(key) = {}
    /\ \A i \in ErrorsOf("MissingUser") \cup ErrorsOf("MissingLDAPUser") :
          diff_out.errors[i].user_ref \in UnresolvedKeys
    /\ \A i \in (Len(files.users) + 1)..Len(diff_out.model.users) :
          UserKey(diff_out.model.users[i]) \in UnresolvedKeys

\* C20: for every membership reference that names no listed user, validate
\* records MissingUser when the lookup is disabled; when it is enabled,
\* validate either inserts a user made from the directory's entry whose
\* username equals the reference's, and records nothing, or records
\* MissingLDAPUser.  A reference that resolves records neither.
C20_UnresolvedReferences ==
    pc = "validated" => (~diff_out.raised /\ ReferencesSettled)

\* The lookup is enabled; one reference is answered by the directory's second
\* entry and the user inserted, another has no entry of its username and is
\* recorded, and the reference to a listed user records nothing.
C20_Witness ==
    /\ Returned
    /\ LookupEnabled
    /\ \E key \in UnresolvedKeys :
          /\ Cardinality(ReferencesTo(key)) = 2
          /\ Cardinality(Inserted(key)) = 1
          /\ diff_in.ldap_user_entries[key.username][1].username # key.username
    /\ \E key \in UnresolvedKeys : Cardinality(MissingLDAPUserErrors(key)) = 1
    /\ \E i \in ListedTeamIdx : \E j \in 1..Len(files.teams[i].users) :
          Listed(files.teams[i].users[j])

\* The part of C20 that holds: what it says of every validate that returns.
C20_SettledWhenReturned == Returned => ReferencesSettled

\* The lookup is disabled and every unresolved reference is recorded.
C20_WitnessDisabled ==
    /\ Returned
    /\ diff_in.options.retrieve_user_entries = "b:False"
    /\ Cardinality(UnresolvedListed) = 3
    /\ Cardinality(ErrorsOf("MissingUser")) = 3

-----------------------------------------------------------------------------
(* ptum: consistency of a user across its teams *)

\* The teams of the files that list a username, and the user they list.
Listing(username) ==
    {i \in ListedTeamIdx :
        \E j \in 1..Len(files.teams[i].users) : files.teams[i].users[j].username = username}

UserIn(i, username) ==
    files.teams[i].users[CHOOSE j \in 1..Len(files.teams[i].users) :
                            files.teams[i].users[j].username = username]

\* The effective role set: the user's own roles if not empty, otherwise the
\* default roles of the team that lists the user.
EffectiveRoles(i, username) ==
    IF UserIn(i, username).roles # {} THEN UserIn(i, username).roles
    ELSE files.teams[i].default_roles

InconsistentErrors(username) ==
    {k \in ErrorsOf("InconsistentUser") : diff_out.errors[k].username = username}

\* Two teams are the teams that list the user; the emails agree and the
\* effective role sets differ.
RolesDiffer(username, a, b) ==
    /\ a < b
    /\ Listing(username) = {a, b}
    /\ UserIn(a, username).email = UserIn(b, username).email
    /\ EffectiveRoles(a, username) # EffectiveRoles(b, username)

Agree(username) ==
    \A a, b \in Listing(username) :
        /\ UserIn(a, username).email = UserIn(b, username).email
        /\ EffectiveRoles(a, username) = EffectiveRoles(b, username)

\* What C21 says of the errors list.
ConsistencyRecorded ==
    \A username \in {"alice", "bob"} :
        /\ \A a, b \in Listing(username) :
              RolesDiffer(username, a, b) =>
                  /\ {diff_out.errors[k] : k \in InconsistentErrors(username)}
                        = {InconsistentUser("roles", username,
                               files.teams[a].full_name, files.teams[b].full_name,
                               EffectiveRoles(a, username), EffectiveRoles(b, username))}
                  /\ Cardinality(InconsistentErrors(username)) = 1
        /\ (Agree(username) => InconsistentErrors(username) = {})

\* C21: a user that two teams list with different effective role sets and
\* the same email gets exactly one InconsistentUser record, which names the
\* two teams and the two role sets; a user whose effective role sets and
\* emails agree across all its teams gets none.
C21_CrossTeamConsistency == pc = "validated" => ConsistencyRecorded

\* The part of C21 that holds: the same, for teams that have a full name
\* each.
C21_WithUniqueNames ==
    (pc = "validated" /\ DuplicateTeamsListed = 0) => ConsistencyRecorded

\* One team lists the user without roles and has default roles, the other
\* lists it with roles of its own, and the record was made.
C21_Witness ==
    /\ pc = "validated"
    /\ \E a, b \in Listing("alice") :
          /\ RolesDiffer("alice", a, b)
          /\ UserIn(a, "alice").roles = {}
          /\ UserIn(b, "alice").roles # {}
          /\ Cardinality(InconsistentErrors("alice")) = 1

\* Own roles in one team equal the default roles of the other: no record.
C21_WitnessAgree ==
    /\ pc = "validated"
    /\ \E a, b \in Listing("alice") :
          /\ a < b
          /\ UserIn(a, "alice").roles # UserIn(b, "alice").roles
    /\ Agree("alice")
    /\ InconsistentErrors("alice") = {}

-----------------------------------------------------------------------------
(* Validation: what it changes *)

\* The positions of the users the model has beyond the users of the files.
AppendedIdx == (Len(files.users) + 1)..Len(diff_out.model.users)

\* A user made from an entry the directory returned for an unresolved
\* reference.
Discovered(user) ==
    /\ UserKey(user) \in UnresolvedKeys
    /\ HasEntry(UserKey(user))
    /\ \E k \in 1..Len(diff_in.ldap_user_entries[user.username]) :
          /\ diff_in.ldap_user_entries[user.username][k].username = user.username
          /\ diff_in.ldap_user_entries[user.username][k].email = user.email

\* C22: Model.validate leaves the teams with their membership lists and the
\* users with their attribute values as they were; it changes the users
\* collection only when the lookup is enabled, and only by appending users
\* the lookup discovered.
C22_ValidationFrame ==
    pc = "validated" =>
        /\ diff_out.model.teams = files.teams
        /\ Len(diff_out.model.users) >= Len(files.users)
        /\ SubSeq(diff_out.model.users, 1, Len(files.users)) = files.users
        /\ (~LookupEnabled => diff_out.model.users = files.users)
        /\ \A i \in AppendedIdx : Discovered(diff_out.model.users[i])

\* The lookup appended a user to users that were listed, and the listed
\* users are as they were.
C22_Witness ==
    /\ pc = "validated"
    /\ LookupEnabled
    /\ Len(files.users) >= 2
    /\ AppendedIdx # {}
    /\ SubSeq(diff_out.model.users, 1, Len(files.users)) = files.users

\* The lookup is disabled, references are unresolved, nothing changed.
C22_WitnessDisabled ==
    /\ pc = "validated"
    /\ diff_in.options.retrieve_user_entries = "b:False"
    /\ UnresolvedListed # {}
    /\ files.users # <<>>
    /\ diff_out.model.users = files.users
    /\ diff_out.model.teams = files.teams

\* Hoistable: the attributes Users.to_dict can hoist into a default.
Hoistable == {"active", "authentication_provider_name", "locale_id", "roles"}

\* The effective value of a hoistable attribute: the user's own value, or the
\* default when the user has none (for roles: when the user's set is empty).
Effective(user, defaults, attr) ==
    IF attr = "roles"
    THEN (IF user.roles # {} THEN user.roles ELSE defaults.roles)
    ELSE (IF user[attr] # None THEN user[attr] ELSE defaults[attr])

\* A list in strictly ascending order.
Ascending(l) == \A i \in 1..(Len(l) - 1) : StrLess(l[i], l[i + 1])

\* C23: Defaults round trip.  Saving a collection of users (values equal to
\* the default are hoisted, that is omitted from the user) and loading it back
\* (missing values are filled in from the defaults) gives every user, for
\* every hoistable attribute (active, authentication provider name, locale,
\* roles), the effective value the user had before, including for a user
\* whose own role set is empty while the default role set is not.
C23_DefaultsRoundTrip ==
    (pc = "reloaded" /\ ~diff_out.raised) =>
        /\ Len(diff_out.users) = 1
        /\ \A attr \in Hoistable :
              /\ diff_out.users[1][attr] = Effective(diff_in.user, diff_in.defaults, attr)
              /\ Effective(diff_out.users[1], diff_out.defaults, attr)
                    = Effective(diff_in.user, diff_in.defaults, attr)

\* C23 witness: a user without roles of their own, saved with a non-empty
\* default role set and another hoisted attribute, has been loaded back.
C23_Witness ==
    /\ pc = "reloaded"
    /\ ~diff_out.raised
    /\ diff_in.user.roles = {}
    /\ diff_in.defaults.roles # {}
    /\ diff_in.user.active = diff_in.defaults.active
    /\ diff_in.user.active # None
    /\ diff_out.users[1].roles = diff_in.defaults.roles

\* C26: User serialization.  to_dict fails exactly when a mandatory attribute
\* is None and no default was supplied for it; otherwise it emits an
\* attribute if and only if its value is not None, differs from the supplied
\* default, and is a boolean or non-empty; roles and allowed_ip_list are
\* emitted as lists in sorted order.
C26_UserSerialization ==
    pc = "dict" =>
        LET user == diff_in.user
            defaults == diff_in.defaults
            supplied(attr) == IF attr \in Hoistable THEN defaults[attr] ELSE None
        IN  /\ diff_out.raised =
                  (\E i \in 1..Len(attrs) :
                      /\ attrs[i].mandatory
                      /\ user[attrs[i].name] = None
                      /\ supplied(attrs[i].name) = None)
            /\ ~diff_out.raised =>
                  \A i \in 1..Len(attrs) :
                      LET attr == attrs[i].name
                      IN  IF attrs[i].type = "list"
                          THEN /\ attr \in DOMAIN diff_out.d
                                     <=> (/\ attr = "roles" => user.roles # defaults.roles
                                          /\ user[attr] # {})
                               /\ attr \in DOMAIN diff_out.d =>
                                     /\ Range(diff_out.d[attr]) = user[attr]
                                     /\ Ascending(diff_out.d[attr])
                          ELSE /\ attr \in DOMAIN diff_out.d
                                     <=> (/\ user[attr] # None
                                          /\ user[attr] # supplied(attr)
                                          /\ (attrs[i].type = "bool"
                                              \/ user[attr] \notin {"s:", "i:0"}))
                               /\ attr \in DOMAIN diff_out.d =>
                                     diff_out.d[attr] = user[attr]

\* C26 witness: a dictionary that omits a value equal to its default, omits
\* an empty string, keeps a False and lists three roles in sorted order.
C26_Witness ==
    /\ pc = "dict"
    /\ ~diff_out.raised
    /\ diff_in.user.locale_id = diff_in.defaults.locale_id
    /\ diff_in.user.locale_id # None
    /\ "locale_id" \notin DOMAIN diff_out.d
    /\ diff_in.user.phone_number = "s:"
    /\ "phone_number" \notin DOMAIN diff_out.d
    /\ "active" \in DOMAIN diff_out.d
    /\ diff_out.d.active = "b:False"
    /\ "roles" \in DOMAIN diff_out.d
    /\ diff_out.d.roles = <<Word.Admin, Word.Audit, Word.Scan>>
    /\ "allowed_ip_list" \in DOMAIN diff_out.d

\* C26 witness: to_dict has failed on a mandatory attribute without a value.
C26_WitnessRaised ==
    /\ pc = "dict"
    /\ diff_out.raised
    /\ diff_in.user.email = None

\* A list of teams has one whose name is not the last segment of its full name.
Misnamed(teams) ==
    \E i \in 1..Len(teams) : Last(split(teams[i].full_name)) # teams[i].name

\* C24: Team path invariant.  Constructing a team whose name is not the last
\* segment of its full name fails at once (the run stops; the mismatch is not
\* a validation error), so every team of the retrieved model and of the
\* loaded model, before and after apply, has the last segment of its full
\* name as its name and a parent full name that is a proper prefix of its own.
C24_TeamPathInvariant ==
    /\ \A teams \in {cur_model.teams, new_model.teams} :
          \A i \in 1..Len(teams) :
              LET full_name == teams[i].full_name
                  parent == get_team_parent_name(full_name)
              IN  /\ Last(split(full_name)) = teams[i].name
                  /\ Len(parent) < Len(full_name)
                  /\ SubSeq(full_name, 1, Len(parent)) = parent
    /\ Misnamed(dir_teams) => (pc \in {"retrieve", "failed"} /\ cur_model = NoModel)
    /\ Misnamed(files.teams) =>
          (pc \in {"retrieve", "validate", "failed"} /\ new_model = NoModel)

\* C24 witness: the directory was retrieved, then loading the files failed
\* on a misnamed team without a validation result.
C24_Witness ==
    /\ pc = "failed"
    /\ Misnamed(files.teams)
    /\ ~Misnamed(dir_teams)
    /\ Len(cur_model.teams) >= 2

\* C24 witness: apply has run to its end on models with nested teams.
C24_WitnessApplied ==
    /\ pc = "done"
    /\ calls # <<>>
    /\ \E i \in 1..Len(new_model.teams) :
          Len(get_team_parent_name(new_model.teams[i].full_name)) > 0

\* A user names a role the resolver does not know.
NamesUnknownRole(user) == \E r \in user.roles : \A x \in all_roles : x.name # r

\* The identifiers the resolver can return for roles and for providers.
ResolverRoleIds == {x.id : x \in all_roles}
ResolverProviderIds == {x.id : x \in authentication_providers}

\* Every call sent to the directory for a user carries identifiers of the
\* resolver only, and none was sent for a user who names an unknown role.
OnlyResolvedIds ==
    \A i \in 1..Len(calls) :
        /\ (calls[i].op = "create_user" /\ calls[i].sent) =>
              /\ ~NamesUnknownRole(calls[i].user)
              /\ calls[i].role_ids \subseteq ResolverRoleIds
              /\ calls[i].role_ids =
                    {x.id : x \in {y \in all_roles : y.name \in calls[i].user.roles}}
              /\ calls[i].authentication_provider_id \in ResolverProviderIds
        /\ calls[i].op = "update_user" =>
              /\ ~NamesUnknownRole(new_model.user_map[calls[i].userkey])
              /\ calls[i].updates.role_ids \subseteq ResolverRoleIds

\* apply_changes is past update_users.
UpdatesDone == pc \in {"delete_users", "delete_teams", "done"}

\* apply_changes is past add_users.
CreationsDone == pc = "update_users" \/ UpdatesDone

\* No user of the given keys names an unknown role in the new model.
AllKnown(keys) == \A k \in keys : ~NamesUnknownRole(new_model.user_map[k])

C25_WitnessUpdate ==
    /\ pc = "failed"
    /\ \E k \in DOMAIN new_model.user_map \cap DOMAIN cur_model.user_map :
          /\ NamesUnknownRole(new_model.user_map[k])
          /\ k \in DOMAIN new_model.user_team_ids_map
          /\ k \in DOMAIN cur_model.user_team_ids_map
          /\ \E i \in 1..Len(todo) : todo[i] = k
    /\ AllKnown(DOMAIN new_model.user_map \ DOMAIN cur_model.user_map)
    /\ team_map # <<>>

\* C25 witness: a dry run has completed with a user to create who names an
\* unknown role.
C25_WitnessDry ==
    /\ pc = "done"
    /\ dry_run
    /\ ~AllKnown(DOMAIN new_model.user_map \ DOMAIN cur_model.user_map)

\* C27: Index rebuild is idempotent.  A second validation of an unchanged
\* model returns the errors of the first (none when the first returned
\* none), and a model built with build_maps=True, whose names and identities
\* are therefore unique, validates without DuplicateTeam or DuplicateUser.
C27_IndexRebuildIdempotent ==
    /\ (pc = "revalidated" /\ ~diff_out.raised) => diff_out.errors = diff_out.first
    /\ (pc = "built_validated" /\ ~diff_out.raised) =>
          \A i \in 1..Len(diff_out.errors) :
              diff_out.errors[i].error \notin {"DuplicateTeam", "DuplicateUser"}

\* C27 witness: a first validation returned no error and the second, on the
\* same teams and users, returned a DuplicateTeam and a DuplicateUser.
C27_Witness ==
    /\ pc = "revalidated"
    /\ ~diff_out.raised
    /\ diff_out.first = <<>>
    /\ diff_out.model.teams = diff_out.given.teams
    /\ diff_out.model.users = diff_out.given.users
    /\ \E i, j \in 1..Len(diff_out.errors) :
          /\ diff_out.errors[i].error = "DuplicateTeam"
          /\ diff_out.errors[j].error = "DuplicateUser"

\* C30: Validated means complete.  When Model.validate returns an empty list
\* of errors, every user of the model's users collection, those the lookup
\* inserted during that validation included, has a value other than None for
\* every mandatory attribute and is a key of user_map.
C30_ValidatedMeansComplete ==
    (Returned /\ diff_out.errors = <<>>) =>
        \A i \in 1..Len(diff_out.model.users) :
            LET user == diff_out.model.users[i]
            IN  /\ \A k \in 1..Len(attrs) :
                      attrs[k].mandatory => user[attrs[k].name] # None
                /\ UserKey(user) \in DOMAIN diff_out.model.user_map

\* C30 witness: validate has returned no error after the lookup inserted a
\* user, who has neither active nor locale_id and is no key of user_map.
C30_Witness ==
    /\ Returned
    /\ diff_out.errors = <<>>
    /\ AppendedIdx # {}
    /\ \A i \in AppendedIdx :
          /\ diff_out.model.users[i].active = None
          /\ diff_out.model.users[i].locale_id = None
          /\ UserKey(diff_out.model.users[i]) \notin DOMAIN diff_out.model.user_map
          /\ UserKey(diff_out.model.users[i]) \in DOMAIN diff_out.model.user_team_ids_map

\* Without an inserted user the claim holds: a validation that returns no
\* error leaves every listed user complete and indexed.
C30_CompleteWhenNothingInserted ==
    (Returned /\ diff_out.errors = <<>> /\ AppendedIdx = {}) =>
        \A i \in 1..Len(diff_out.model.users) :
            LET user == diff_out.model.users[i]
            IN  /\ \A k \in 1..Len(attrs) :
                      attrs[k].mandatory => user[attrs[k].name] # None
                /\ UserKey(user) \in DOMAIN diff_out.model.user_map

\* C28: Update step is total.  While update_users runs, every identity it
\* still has to visit, each of them present in both models, has a user record
\* and a team-id set in the current model and in the new one; a current user
\* whom the directory reports without teams has the empty team-id set.
C28_UpdateStepTotal ==
    pc = "update_users" =>
        \A i \in 1..Len(todo) :
            /\ todo[i] \in DOMAIN cur_model.user_map
            /\ todo[i] \in DOMAIN new_model.user_map
            /\ todo[i] \in DOMAIN cur_model.user_team_ids_map
            /\ todo[i] \in DOMAIN new_model.user_team_ids_map
            /\ (\A j \in 1..Len(dir_users) :
                   (/\ dir_users[j].id = cur_model.user_map[todo[i]].user_id
                    /\ dir_users[j].team_ids = {})
                       => cur_model.user_team_ids_map[todo[i]] = {})

\* C28 witness: update_users has failed at a user of both models whom the
\* directory reports without teams and who has no entry in the current
\* model's team-id map.
C28_Witness ==
    /\ pc = "failed"
    /\ new_model.user_map # <<>>
    /\ DOMAIN new_model.user_map \subseteq DOMAIN cur_model.user_map
    /\ DOMAIN new_model.team_map = DOMAIN cur_model.team_map
    /\ \E i \in 1..Len(todo) :
          /\ todo[i] \in DOMAIN cur_model.user_map \cap DOMAIN new_model.user_map
          /\ todo[i] \notin DOMAIN cur_model.user_team_ids_map
          /\ \E j \in 1..Len(dir_users) :
                /\ dir_users[j].id = cur_model.user_map[todo[i]].user_id
                /\ dir_users[j].team_ids = {}

\* Where every current user of both models has a team, the step is total.
C28_TotalWhenInTeams ==
    (/\ pc = "update_users"
     /\ \A j \in 1..Len(dir_users) : dir_users[j].team_ids # {}) =>
        \A i \in 1..Len(todo) :
            /\ todo[i] \in DOMAIN cur_model.user_map
            /\ todo[i] \in DOMAIN new_model.user_map
            /\ todo[i] \in DOMAIN cur_model.user_team_ids_map
            /\ todo[i] \in DOMAIN new_model.user_team_ids_map

\* C29: Parent resolution on team creation.  While add_teams runs, the parent
\* of every team it still has to create has an entry where add_teams looks
\* for it, or is created earlier in the same run, whether the parent is a
\* team of the current model only or of both models; and no create-team call
\* that was sent carries an absent parent id.
C29_ParentResolution ==
    /\ pc = "add_teams" =>
          \A i \in 1..Len(todo) :
              \/ get_team_parent_name(todo[i]) \in DOMAIN team_map
              \/ \E j \in 1..(i - 1) : todo[j] = get_team_parent_name(todo[i])
    /\ \A i \in 1..Len(calls) :
          (calls[i].op = "create_team" /\ calls[i].sent) =>
              calls[i].team_parent_id # NoId

\* C29 witness: add_teams is at a team whose parent is a team of the current
\* model only, and finds no entry for it.
C29_Witness ==
    /\ pc = "add_teams"
    /\ todo # <<>>
    /\ get_team_parent_name(Head(todo)) \in DOMAIN cur_model.team_map
    /\ get_team_parent_name(Head(todo)) \notin DOMAIN new_model.team_map
    /\ get_team_parent_name(Head(todo)) \notin DOMAIN team_map

\* Where the parent is a team of the new model, of both models or created
\* earlier in the run, add_teams finds it and every call sent has a parent id.
C29_ResolvedWithinNewModel ==
    /\ pc = "add_teams" =>
          \A i \in 1..Len(todo) :
              get_team_parent_name(todo[i]) \in DOMAIN new_model.team_map
                  => get_team_parent_name(todo[i]) \in DOMAIN team_map
    /\ \A i \in 1..Len(calls) :
          (calls[i].op = "create_team" /\ calls[i].sent) =>
              calls[i].team_parent_id # NoId

====
